---------------------------- MODULE Spec2Model ----------------------------
(***************************************************************************)
(* NeuroScan AI dashboard (ENIGMA_2.0_QUANTUM_CREW): the signal-to-score   *)
(* pipeline of src/utils/eegUtils.js and src/utils/csvAnalysis.js and the  *)
(* state of the App component that drives it.                              *)
(*                                                                         *)
(* Numbers.  Band powers are kept in units of 1/10000 (the code rounds     *)
(* them with toFixed(4)), score components in units of 1/100 (toFixed(2)). *)
(* All arithmetic is exact integer arithmetic on these units.  Where the   *)
(* exact value to be rounded lies precisely half way between two results,  *)
(* the double-precision computation of the code lands on either side, so   *)
(* a rounding yields the SET of results it can give (RoundSet): both       *)
(* neighbours on an exact half, the nearest one otherwise.                 *)
(*                                                                         *)
(* 32-bit words (the state of mulberry32) are pairs <<hi, lo>> of 16-bit   *)
(* halves, so that no intermediate value leaves the integers of the model  *)
(* checker.                                                                *)
(***************************************************************************)
EXTENDS Integers, Sequences, FiniteSets, TLC

VARIABLES
    \* ---- state of the App component (useState hooks) ----
    isSZ,            \* subject type selected in the sidebar
    seed,            \* seed held in app state
    results,         \* last published analysis results
    isLoading,       \* an analysis is in flight
    hasRun,          \* Analyze was clicked at least once
    sessionHistory,  \* most-recent-first list of summaries
    csvData,         \* validated Signal of the uploaded file, or NULL
    csvFileName,     \* name of the uploaded file, or ""
    csvError,        \* message of the last rejected upload, or NULL
    timers,          \* pending setTimeout callbacks with the values they captured
    reads,           \* files a FileReader is still reading
    clock,           \* number of analyses completed (stands for the wall clock)
    \* ---- a pure function under test: its argument and what it returned ----
    stage,
    input,
    output

appVars == <<isSZ, seed, results, isLoading, hasRun, sessionHistory,
             csvData, csvFileName, csvError, timers, reads, clock>>
fnVars == <<stage, input, output>>
vars == <<isSZ, seed, results, isLoading, hasRun, sessionHistory,
          csvData, csvFileName, csvError, timers, reads, clock, stage, input, output>>

\* null: the empty sequence, distinct from every record, from every Signal the
\* parser returns and from every error message
NULL == <<>>

\* a JavaScript number and a JavaScript string, kept apart so that a value
\* that may be either (the seed, after a CSV history entry is loaded) can be
\* stored and compared
Num(n) == [number |-> n]
Str(s) == [string |-> s]
IsNumber(v) == DOMAIN v = {"number"}

(***************************************************************************)
(* Bounds of the model.                                                    *)
(***************************************************************************)
MaxSeed == 2

(***************************************************************************)
(* Rounding.                                                               *)
(***************************************************************************)
\* floor(num / den) for den > 0
FloorDiv(num, den) == num \div den

\* Results a double-precision rounding to the nearest integer can give for
\* the exact value num/den (den > 0): both neighbours on an exact half.
RoundSet(num, den) ==
    IF (2 * num) % (2 * den) = den
    THEN {FloorDiv(num, den), FloorDiv(num, den) + 1}
    ELSE {FloorDiv(2 * num + den, 2 * den)}

Clamp(x, lo, hi) == IF x < lo THEN lo ELSE IF x > hi THEN hi ELSE x

(***************************************************************************)
(* 32-bit words as <<hi, lo>>, each half in 0..65535.                      *)
(***************************************************************************)
W16 == 65536

\* ToInt32 of an integer n (seed |= 0)
ToWord(n) == <<(n \div W16) % W16, n % W16>>

\* bitwise xor and or of two numbers below 2^n, bit by bit
RECURSIVE XorBits(_, _, _)
XorBits(a, b, n) ==
    IF n = 0 THEN 0
    ELSE ((a + b) % 2) + 2 * XorBits(a \div 2, b \div 2, n - 1)

RECURSIVE OrBits(_, _, _)
OrBits(a, b, n) ==
    IF n = 0 THEN 0
    ELSE (IF a % 2 = 1 \/ b % 2 = 1 THEN 1 ELSE 0) + 2 * OrBits(a \div 2, b \div 2, n - 1)

\* the same on 4-bit digits, tabulated
XorNibble == [a \in 0..15 |-> [b \in 0..15 |-> XorBits(a, b, 4)]]
OrNibble == [a \in 0..15 |-> [b \in 0..15 |-> OrBits(a, b, 4)]]

Xor16(a, b) ==
    XorNibble[a % 16][b % 16]
        + 16 * XorNibble[(a \div 16) % 16][(b \div 16) % 16]
        + 256 * XorNibble[(a \div 256) % 16][(b \div 256) % 16]
        + 4096 * XorNibble[a \div 4096][b \div 4096]

Or16(a, b) ==
    OrNibble[a % 16][b % 16]
        + 16 * OrNibble[(a \div 16) % 16][(b \div 16) % 16]
        + 256 * OrNibble[(a \div 256) % 16][(b \div 256) % 16]
        + 4096 * OrNibble[a \div 4096][b \div 4096]

WXor(a, b) == <<Xor16(a[1], b[1]), Xor16(a[2], b[2])>>
WOr(a, b) == <<Or16(a[1], b[1]), Or16(a[2], b[2])>>

\* (a + b) mod 2^32
WAdd(a, b) ==
    LET lo == a[2] + b[2]
        hi == a[1] + b[1] + (lo \div W16)
    IN <<hi % W16, lo % W16>>

RECURSIVE Pow2(_)
Pow2(k) == IF k = 0 THEN 1 ELSE 2 * Pow2(k - 1)

\* a >>> k for 0 < k < 16
WShr(a, k) ==
    <<a[1] \div Pow2(k),
      (a[1] % Pow2(k)) * Pow2(16 - k) + (a[2] \div Pow2(k))>>

\* Math.imul(a, b): the low 32 bits of the product, by 8-bit limbs
WBytes(a) == <<a[2] % 256, a[2] \div 256, a[1] % 256, a[1] \div 256>>
Imul(a, b) ==
    LET x == WBytes(a)
        y == WBytes(b)
        c0 == x[1] * y[1]
        c1 == x[1] * y[2] + x[2] * y[1] + (c0 \div 256)
        c2 == x[1] * y[3] + x[2] * y[2] + x[3] * y[1] + (c1 \div 256)
        c3 == x[1] * y[4] + x[2] * y[3] + x[3] * y[2] + x[4] * y[1] + (c2 \div 256)
    IN <<(c3 % 256) * 256 + (c2 % 256), (c1 % 256) * 256 + (c0 % 256)>>

(***************************************************************************)
(* mulberry32: the generator is its 32-bit state; one call advances the    *)
(* state and returns the word w, standing for the float w / 2^32.          *)
(***************************************************************************)
Golden == <<27947, 31221>>      \* 0x6d2b79f5

mulberry32(s) == ToWord(s)

\* the word returned by the call that leaves the state st
RngOut(st) ==
    LET t1 == Imul(WXor(st, WShr(st, 15)), WOr(<<0, 1>>, st))
        t2 == WXor(WAdd(t1, Imul(WXor(t1, WShr(t1, 7)), WOr(<<0, 61>>, t1))), t1)
    IN WXor(t2, WShr(t2, 14))

\* the state of a generator seeded s after k calls (0 <= k < 2^15): every
\* call adds 0x6d2b79f5 to the state
RngState(s, k) ==
    WAdd(mulberry32(s),
         <<(Golden[1] * k + ((Golden[2] * k) \div W16)) % W16, (Golden[2] * k) % W16>>)

\* the k-th value (k >= 1) drawn from a generator seeded s
Draw(s, k) == RngOut(RngState(s, k))

\* the state a generator in state st has after k more calls (0 <= k < 2^15)
RngAdvance(st, k) ==
    WAdd(st, <<(Golden[1] * k + ((Golden[2] * k) \div W16)) % W16, (Golden[2] * k) % W16>>)

\* the k-th value (k >= 1) a generator in state st returns next
DrawFrom(st, k) == RngOut(RngAdvance(st, k))

\* the number mulberry32(seed + off) starts from: for a number seed the sum;
\* for the string seed "CSV" the sum is the string "CSV" followed by the
\* digits of off, which `seed |= 0` turns into 0
SeedPlus(sd, off) == IF IsNumber(sd) THEN sd.number + off ELSE 0

\* the offset every seeded function adds to its seed argument
RiskSeedOffset == 2000
SeedOffsetAllZero ==
    [generateEEGSignal |-> 0, computeBandPowers |-> 0, computeRiskScore |-> 0,
     generateSHAPValues |-> 0, computeCoherence |-> 0]
SeedOffset ==
    [generateEEGSignal |-> 0, computeBandPowers |-> 1000, computeRiskScore |-> RiskSeedOffset,
     generateSHAPValues |-> 3000, computeCoherence |-> 4000]

\* a generator that goes on from the state of the one made before it
NewGeneratorShared(live, s) == IF live = NULL THEN mulberry32(s) ELSE live

\* the generator `mulberry32(s)` returns to a caller while the generator
\* `live` made by an earlier call (NULL: none) exists: a closure over its own
\* parameter, which no other closure reads or writes
NewGenerator(live, s) == mulberry32(s)

\* const rng = mulberry32(seed + offset) of the function fn
StageRng(fn, sd) == NewGenerator(NULL, SeedPlus(sd, SeedOffset[fn]))

\* floor(r * m) for the float r = w / 2^32 and an integer 0 < m < 2^15
FloorMul(w, m) == (m * w[1] + ((m * w[2]) \div W16)) \div W16

\* Math.round(r * m) for the float r = w / 2^32 and an integer 0 < m < 2^15;
\* r * m is exact in double precision, and an exact half rounds up
RoundMul(w, m) ==
    LET q == m * w[1] + ((m * w[2]) \div W16)
    IN (q \div W16) + (IF q % W16 >= 32768 THEN 1 ELSE 0)


(***************************************************************************)
(* classifyRisk (eegUtils.js): score -> tier.                              *)
(***************************************************************************)
HighRiskMin == 60
ModerateMin == 40

HighRisk ==
    [level |-> "High Risk", color |-> "#ef4444",
     recommendation |-> "Immediate psychiatric consultation recommended",
     alert |-> "Elevated slow-wave activity and reduced alpha coherence patterns observed. Recommend psychiatric evaluation."]
Moderate ==
    [level |-> "Moderate", color |-> "#f59e0b",
     recommendation |-> "Schedule follow-up evaluation",
     alert |-> "Borderline EEG patterns detected. Some abnormalities present. Monitor and retest in 3 months."]
LowRisk ==
    [level |-> "Low Risk", color |-> "#10b981",
     recommendation |-> "Routine monitoring",
     alert |-> "EEG patterns within healthy reference range. No significant abnormalities detected."]

classifyRiskAt59(score) ==
    IF score >= 59 THEN HighRisk ELSE IF score >= ModerateMin THEN Moderate ELSE LowRisk

classifyRisk(score) ==
    IF score >= HighRiskMin THEN HighRisk
    ELSE IF score >= ModerateMin THEN Moderate
    ELSE LowRisk

(***************************************************************************)
(* computeRiskScore (eegUtils.js).  Band powers in 1/10000, components in  *)
(* 1/100.  The function returns one result; the operator gives the set of  *)
(* results the floating-point roundings allow (a single one unless an      *)
(* exact half occurs).                                                     *)
(***************************************************************************)
\* healthy baselines in 1/10000: 1.2, 0.7, 1.8, 0.5, 0.2
Baseline == [delta |-> 12000, theta |-> 7000, alpha |-> 18000, beta |-> 5000, gamma |-> 2000]
Weight == [delta |-> 20, theta |-> 15, alpha |-> 35, gamma |-> 10]
ScoredBands == <<"delta", "theta", "alpha", "gamma">>
\* the exact ratio the component of a band is built from, times the band's
\* baseline: power/base - 1, or 1 - power/base for alpha
RatioNum(band, p) == IF band = "alpha" THEN Baseline[band] - p ELSE p - Baseline[band]

\* parseFloat((ratio * weight).toFixed(2)), in 1/100
ComponentSet(band, p) == RoundSet(100 * Weight[band] * RatioNum(band, p), Baseline[band])

\* all the component records the four toFixed(2) can give
ComponentsSet(bp) ==
    {[delta |-> cd, theta |-> ct, alpha |-> ca, gamma |-> cg] :
        cd \in ComponentSet("delta", bp.delta), ct \in ComponentSet("theta", bp.theta),
        ca \in ComponentSet("alpha", bp.alpha), cg \in ComponentSet("gamma", bp.gamma)}

\* Object.values(components).reduce((a, b) => a + b, 0), in 1/100
RawScore(c) == c.delta + c.theta + c.alpha + c.gamma

\* Math.min(100, Math.max(0, Math.round(rawScore * 1.2)))
ScoreUnclampedSet(c) == RoundSet(12 * RawScore(c), 1000)

ScoreNoScaleSet(c) == {Clamp(x, 0, 100) : x \in RoundSet(RawScore(c), 100)}

ScoreSet(c) == {Clamp(x, 0, 100) : x \in RoundSet(12 * RawScore(c), 1000)}

\* Math.round(80 + rng() * 15) for the draw w
ConfidenceFloor(w) == 80 + FloorMul(w, 15)

Confidence(w) == 80 + RoundMul(w, 15)

\* Object.entries(components).reduce((a, b) => b[1] > a[1] ? b : a)[0]
RECURSIVE ReduceKeyLast(_, _, _)
ReduceKeyLast(c, a, i) ==
    IF i > Len(ScoredBands) THEN a
    ELSE ReduceKeyLast(c, IF c[ScoredBands[i]] >= c[a] THEN ScoredBands[i] ELSE a, i + 1)

RECURSIVE ReduceKey(_, _, _)
ReduceKey(c, a, i) ==
    IF i > Len(ScoredBands) THEN a
    ELSE ReduceKey(c, IF c[ScoredBands[i]] > c[a] THEN ScoredBands[i] ELSE a, i + 1)

KeyBandLastMax(c) == ReduceKeyLast(c, ScoredBands[1], 2)

KeyBand(c) == ReduceKey(c, ScoredBands[1], 2)

markerMapAlphaUndefined ==
    [delta |-> "δ Elevation", theta |-> "θ Elevation",
     alpha |-> "undefined", gamma |-> "γ Dysregulation"]

markerMap ==
    [delta |-> "δ Elevation", theta |-> "θ Elevation",
     alpha |-> "α Suppression", gamma |-> "γ Dysregulation"]

\* the template strings of `deviations`: sign, Math.round(ratio * 100), tail.
\* The string is sign \o ToString(percent) \o tail, so a negative percent
\* prints as "+-8% above normal".
DeviationSet(band, p) ==
    {[sign |-> IF band = "alpha" THEN "-" ELSE "+",
      percent |-> n,
      tail |-> IF band = "alpha" THEN "% below normal" ELSE "% above normal"] :
        n \in RoundSet(100 * RatioNum(band, p), Baseline[band])}

\* the body of computeRiskScore, drawing from the generator rng
computeRiskScoreRng(bandPowers, rng) ==
    UNION {
        {[score |-> sc, confidence |-> Confidence(DrawFrom(rng, 1)),
          keyMarker |-> markerMap[KeyBand(c)],
          keyDeviation |-> dv, components |-> c] :
            sc \in ScoreSet(c), dv \in DeviationSet(KeyBand(c), bandPowers[KeyBand(c)])} :
        c \in ComponentsSet(bandPowers)}

computeRiskScore(bandPowers, sd) ==
    computeRiskScoreRng(bandPowers, StageRng("computeRiskScore", sd))


(***************************************************************************)
(* State of the App component after construction (the useState defaults).  *)
(***************************************************************************)
EMPTY_RESULTS ==
    [riskScore |-> NULL, confidence |-> NULL, keyMarker |-> NULL, keyDeviation |-> NULL,
     classification |-> NULL, eegSignal |-> <<>>, bandPowers |-> <<>>,
     shapValues |-> <<>>, coherence |-> <<>>]

AppInit ==
    /\ isSZ = FALSE
    /\ seed = Num(42)
    /\ results = EMPTY_RESULTS
    /\ isLoading = FALSE
    /\ hasRun = FALSE
    /\ sessionHistory = <<>>
    /\ csvData = NULL
    /\ csvFileName = ""
    /\ csvError = NULL
    /\ timers = <<>>
    /\ reads = {}
    /\ clock = 0

(***************************************************************************)
(* SpecClassify: classifyRisk applied to every integer score 0..100.       *)
(***************************************************************************)
MaxScore == 100

ClassifyInit ==
    /\ AppInit
    /\ stage = "score"
    /\ input \in 0..MaxScore
    /\ output = NULL

Classify ==
    /\ stage = "score"
    /\ output' = classifyRisk(input)
    /\ stage' = "classified"
    /\ UNCHANGED <<input, appVars>>

ClassifyNext == Classify

SpecClassify == ClassifyInit /\ [][ClassifyNext]_vars

(***************************************************************************)
(* SpecScore: computeRiskScore applied to band powers and seeds drawn from *)
(* bounded sets: zero powers, the baselines, powers whose component is an  *)
(* exact half of a hundredth, suppressed and elevated powers up to the     *)
(* values the normalised measured powers can take.                         *)
(***************************************************************************)
DeltaIn == {0, 11000, 12000, 12003, 15300, 30000}
ThetaIn == {0, 6700, 7000, 7007}
AlphaIn == {0, 13600, 18000, 18018, 20000}
BetaIn  == {0, 5000}
GammaIn == {0, 1900, 2000, 2001, 8000}
SeedIn  == (0..MaxSeed) \cup {42}

BandPowersIn ==
    [delta : DeltaIn, theta : ThetaIn, alpha : AlphaIn, beta : BetaIn, gamma : GammaIn]

ScoreInit ==
    /\ AppInit
    /\ stage = "bandPowers"
    /\ input \in [bandPowers : BandPowersIn, seed : SeedIn]
    /\ output = NULL

ScoreRisk ==
    /\ stage = "bandPowers"
    /\ \E r \in computeRiskScore(input.bandPowers, Num(input.seed)) : output' = r
    /\ stage' = "scored"
    /\ UNCHANGED <<input, appVars>>

ScoreNext == ScoreRisk

SpecScore == ScoreInit /\ [][ScoreNext]_vars

(***************************************************************************)
(* Properties of the classifier and of the risk scorer.                    *)
(***************************************************************************)
Abs(x) == IF x < 0 THEN -x ELSE x

\* C1: classifyRisk maps every integer score in 0..100 to exactly one tier:
\* High Risk iff score >= 60, Moderate iff 40 <= score < 60, Low Risk iff
\* score < 40 (59 -> Moderate, 60 -> High Risk, 39 -> Low Risk, 40 ->
\* Moderate), each tier with its own fixed color, recommendation and alert.
C1_ClassifierTiers ==
    stage = "classified" =>
        /\ output.level \in {"High Risk", "Moderate", "Low Risk"}
        /\ (output.level = "High Risk" <=> input >= 60)
        /\ (output.level = "Moderate" <=> (40 <= input /\ input < 60))
        /\ (output.level = "Low Risk" <=> input < 40)
        /\ (input = 59 => output.level = "Moderate")
        /\ (input = 60 => output.level = "High Risk")
        /\ (input = 39 => output.level = "Low Risk")
        /\ (input = 40 => output.level = "Moderate")
        /\ (output.level = "High Risk" =>
                /\ output.color = "#ef4444"
                /\ output.recommendation = "Immediate psychiatric consultation recommended"
                /\ output.alert = HighRisk.alert)
        /\ (output.level = "Moderate" =>
                /\ output.color = "#f59e0b"
                /\ output.recommendation = "Schedule follow-up evaluation"
                /\ output.alert = Moderate.alert)
        /\ (output.level = "Low Risk" =>
                /\ output.color = "#10b981"
                /\ output.recommendation = "Routine monitoring"
                /\ output.alert = LowRisk.alert)

C1_Witness == stage = "classified" /\ input = 59 /\ output.level = "Moderate"

ExactScaledNum(bp) ==
    42 * (bp.delta - 12000) + 54 * (bp.theta - 7000)
        + 49 * (18000 - bp.alpha) + 126 * (bp.gamma - 2000)

\* C3 (as stated): the score equals clamp(round(1.2 * S), 0, 100) with S the
\* sum of the four unrounded components.
C3_ScoreOfExactSum ==
    stage = "scored" =>
        output.score \in
            {Clamp(x, 0, 100) : x \in RoundSet(ExactScaledNum(input.bandPowers), 21000)}

\* C3 (amended): each component is first rounded to 2 decimals; the score
\* equals clamp(round(1.2 * S2), 0, 100) with S2 the sum of the four rounded
\* components (an exact half rounding to either neighbour); it is the same
\* for every beta power and every seed.
C3_ScoreOfRoundedComponents ==
    stage = "scored" =>
        LET bp == input.bandPowers
            c == output.components
            H == c.delta + c.theta + c.alpha + c.gamma
        IN /\ \A b \in {"delta", "theta", "alpha", "gamma"} :
                2 * Abs(c[b] * Baseline[b] - 100 * Weight[b] * RatioNum(b, bp[b]))
                    <= Baseline[b]
           /\ \E x \in {(12 * H) \div 1000, (12 * H) \div 1000 + 1} :
                /\ 2 * Abs(1000 * x - 12 * H) <= 1000
                /\ output.score = Clamp(x, 0, 100)
           /\ \A b2 \in BetaIn :
                output.score \in
                    {r.score : r \in computeRiskScore([bp EXCEPT !.beta = b2], Num(input.seed))}
           /\ \A s2 \in SeedIn :
                output.score \in {r.score : r \in computeRiskScore(bp, Num(s2))}

\* delta 1.53, theta 0.67, alpha 1.36, gamma 0.19: 1.2 * S = 15.495 but the
\* rounded components 5.50 - 0.64 + 8.56 - 0.50 give 1.2 * 12.92 = 15.504
C3_Witness ==
    /\ stage = "scored"
    /\ input.bandPowers.delta = 15300 /\ input.bandPowers.theta = 6700
    /\ input.bandPowers.alpha = 13600 /\ input.bandPowers.gamma = 1900
    /\ output.score = 16

\* C4 (as stated): confidence = 80 + floor(r * 15) for the first draw r of
\* the generator seeded seed + 2000, an integer in [80, 95].
C4_ConfidenceFloor ==
    stage = "scored" =>
        /\ output.confidence = 80 + FloorMul(Draw(input.seed + 2000, 1), 15)
        /\ output.confidence \in 80..95

\* C4 (amended): confidence = round(80 + r * 15) for the first draw r of the
\* generator seeded seed + 2000, an integer in [80, 95].
C4_ConfidenceRound ==
    stage = "scored" =>
        LET w == Draw(input.seed + 2000, 1)
            \* r * 15 = q / 65536 + (a remainder below 1/65536)
            q == 15 * w[1] + ((15 * w[2]) \div 65536)
            n == output.confidence - 80
        IN /\ output.confidence \in 80..95
           \* n - 1/2 <= r * 15 < n + 1/2
           /\ 2 * n * 65536 - 65536 <= 2 * q
           /\ 2 * q < 2 * n * 65536 + 65536

\* seed 0: r * 15 = 14.79, so the confidence is 95 (and not 94)
C4_Witness ==
    /\ stage = "scored"
    /\ input.seed = 0
    /\ output.confidence = 95

BandOfMarker(m) == CHOOSE b \in DOMAIN markerMap : markerMap[b] = m
BandIndex(b) == CHOOSE i \in 1..4 : ScoredBands[i] = b

\* C5: the key marker is the label of the first band, in the order delta,
\* theta, alpha, gamma, whose component equals the maximum of the four (on
\* an exact tie the earlier band wins); it is one of the four fixed phrases.
C5_KeyMarkerFirstMax ==
    stage = "scored" =>
        /\ output.keyMarker \in
            {"δ Elevation", "θ Elevation", "α Suppression", "γ Dysregulation"}
        /\ LET c == output.components
               k == BandOfMarker(output.keyMarker)
           IN /\ \A b \in {"delta", "theta", "alpha", "gamma"} : c[b] <= c[k]
              /\ \A i \in 1..4 : i < BandIndex(k) => c[ScoredBands[i]] < c[k]
        /\ (output.keyMarker = "δ Elevation" <=> BandOfMarker(output.keyMarker) = "delta")
        /\ (output.keyMarker = "θ Elevation" <=> BandOfMarker(output.keyMarker) = "theta")
        /\ (output.keyMarker = "α Suppression" <=> BandOfMarker(output.keyMarker) = "alpha")
        /\ (output.keyMarker = "γ Dysregulation" <=> BandOfMarker(output.keyMarker) = "gamma")

\* delta and gamma components tie at the maximum: delta, the earlier, wins
C5_Witness ==
    /\ stage = "scored"
    /\ output.components.delta = output.components.gamma
    /\ output.components.delta > output.components.theta
    /\ output.components.delta > output.components.alpha
    /\ output.keyMarker = "δ Elevation"

\* C6: keyDeviation is "+N% above normal" when the key band is delta, theta
\* or gamma and "-N% below normal" when it is alpha, with N a non-negative
\* whole percentage from the ratio of that band's component.
C6_KeyDeviationForm ==
    stage = "scored" =>
        LET k == BandOfMarker(output.keyMarker)
            dv == output.keyDeviation
        IN /\ dv.percent >= 0
           /\ 2 * Abs(dv.percent * Baseline[k] - 100 * RatioNum(k, input.bandPowers[k]))
                <= Baseline[k]
           /\ (k = "alpha" => dv.sign = "-" /\ dv.tail = "% below normal")
           /\ (k # "alpha" => dv.sign = "+" /\ dv.tail = "% above normal")

(***************************************************************************)
(* parseCSV (csvAnalysis.js).  A text is the sequence of its lines, a line *)
(* the sequence of its comma-separated cells (what split(",") returns), a  *)
(* cell the sequence of its characters.  A parsed number is the pair of    *)
(* its signed decimal mantissa and the number of its fraction digits, with *)
(* trailing fraction zeros removed (1.50 and 1.5 are the same number).     *)
(***************************************************************************)
MinRows == 128

NaN == [nan |-> TRUE]
Digits == <<"0", "1", "2", "3", "4", "5", "6", "7", "8", "9">>
IsDigit(ch) == \E i \in 1..10 : Digits[i] = ch
DigitVal(ch) == (CHOOSE i \in 1..10 : Digits[i] = ch) - 1
IsSpace(ch) == ch \in {" ", "\t", "\r"}

Upper == <<"A", "B", "C", "D", "E", "F", "G", "H", "I", "J", "K", "L", "M",
           "N", "O", "P", "Q", "R", "S", "T", "U", "V", "W", "X", "Y", "Z">>
Lower == <<"a", "b", "c", "d", "e", "f", "g", "h", "i", "j", "k", "l", "m",
           "n", "o", "p", "q", "r", "s", "t", "u", "v", "w", "x", "y", "z">>

\* String.prototype.toLowerCase, character by character
LowerChar(ch) ==
    IF \E i \in 1..26 : Upper[i] = ch
    THEN Lower[CHOOSE i \in 1..26 : Upper[i] = ch]
    ELSE ch
toLowerCaseKeepCase(str) == str
toLowerCase(str) == [i \in 1..Len(str) |-> LowerChar(str[i])]

\* String.prototype.trim
RECURSIVE TrimLeft(_)
TrimLeft(str) ==
    IF str # <<>> /\ IsSpace(Head(str)) THEN TrimLeft(Tail(str)) ELSE str
RECURSIVE TrimRight(_)
TrimRight(str) ==
    IF str # <<>> /\ IsSpace(str[Len(str)])
    THEN TrimRight(SubSeq(str, 1, Len(str) - 1))
    ELSE str
trim(str) == TrimRight(TrimLeft(str))

\* a line with no comma and nothing but white space: l.trim() === ""
IsBlankLine(line) == Len(line) = 1 /\ trim(line[1]) = <<>>

\* text.trim().split(/\r?\n/).filter((l) => l.trim() !== ""): trimming the
\* text removes the blank lines at both ends and the white space before the
\* first and after the last cell; the filter removes the other blank lines
RECURSIVE DropBlankLeft(_)
DropBlankLeft(text) ==
    IF text # <<>> /\ IsBlankLine(Head(text)) THEN DropBlankLeft(Tail(text)) ELSE text
RECURSIVE DropBlankRight(_)
DropBlankRight(text) ==
    IF text # <<>> /\ IsBlankLine(text[Len(text)])
    THEN DropBlankRight(SubSeq(text, 1, Len(text) - 1))
    ELSE text
TrimText(text) ==
    LET t == DropBlankRight(DropBlankLeft(text))
    IN IF t = <<>> THEN t
       ELSE LET t1 == [t EXCEPT ![1][1] = TrimLeft(t[1][1])]
                n == Len(t1)
            IN [t1 EXCEPT ![n][Len(t1[n])] = TrimRight(t1[n][Len(t1[n])])]

SelectLines(text) == SelectSeq(TrimText(text), LAMBDA l : ~IsBlankLine(l))

\* the numeric prefix of a string: parseFloat reads an optional sign, digits,
\* an optional point and more digits, and ignores whatever follows
RECURSIVE CountDigits(_, _)
CountDigits(str, i) ==
    IF i <= Len(str) /\ IsDigit(str[i]) THEN 1 + CountDigits(str, i + 1) ELSE 0

RECURSIVE DigitsValue(_, _, _)
\* the value of the n digits of str that start at position i
DigitsValue(str, i, n) ==
    IF n = 0 THEN 0 ELSE 10 * DigitsValue(str, i, n - 1) + DigitVal(str[i + n - 1])

RECURSIVE Normalize(_, _)
Normalize(mant, scale) ==
    IF scale > 0 /\ mant % 10 = 0 THEN Normalize(mant \div 10, scale - 1)
    ELSE [mant |-> mant, scale |-> scale]

RECURSIVE Pow10(_)
Pow10(k) == IF k = 0 THEN 1 ELSE 10 * Pow10(k - 1)

\* parseFloat that accepts only a string that is numeric as a whole
parseFloatStrict(str) ==
    LET s0 == TrimLeft(str)
        neg == s0 # <<>> /\ Head(s0) = "-"
        s1 == IF s0 # <<>> /\ Head(s0) \in {"-", "+"} THEN Tail(s0) ELSE s0
        ni == CountDigits(s1, 1)
        hasPoint == ni < Len(s1) /\ s1[ni + 1] = "."
        nf == IF hasPoint THEN CountDigits(s1, ni + 2) ELSE 0
        used == ni + nf + (IF hasPoint THEN 1 ELSE 0)
        mant == DigitsValue(s1, 1, ni) * Pow10(nf)
                    + (IF hasPoint THEN DigitsValue(s1, ni + 2, nf) ELSE 0)
    IN IF ni + nf = 0 \/ used # Len(s1) THEN NaN
       ELSE Normalize(IF neg THEN -mant ELSE mant, nf)

parseFloat(str) ==
    LET s0 == TrimLeft(str)
        neg == s0 # <<>> /\ Head(s0) = "-"
        s1 == IF s0 # <<>> /\ Head(s0) \in {"-", "+"} THEN Tail(s0) ELSE s0
        ni == CountDigits(s1, 1)
        hasPoint == ni < Len(s1) /\ s1[ni + 1] = "."
        nf == IF hasPoint THEN CountDigits(s1, ni + 2) ELSE 0
        mant == DigitsValue(s1, 1, ni) * Pow10(nf)
                    + (IF hasPoint THEN DigitsValue(s1, ni + 2, nf) ELSE 0)
    IN IF ni + nf = 0 THEN NaN
       ELSE Normalize(IF neg THEN -mant ELSE mant, nf)

isNaN(v) == v = NaN

requiredCols == <<"time", "fp1", "f3", "c3", "p3", "o1">>
ColChars ==
    [time |-> <<"t", "i", "m", "e">>, fp1 |-> <<"f", "p", "1">>, f3 |-> <<"f", "3">>,
     c3 |-> <<"c", "3">>, p3 |-> <<"p", "3">>, o1 |-> <<"o", "1">>]

\* header.includes(col) and header.indexOf(col): first position, 0 if none
\* (the code's -1)
RECURSIVE IndexFrom(_, _, _)
IndexFrom(header, col, i) ==
    IF i > Len(header) THEN 0
    ELSE IF header[i] = ColChars[col] THEN i
    ELSE IndexFrom(header, col, i + 1)
indexOf(header, col) == IndexFrom(header, col, 1)
includes(header, col) == indexOf(header, col) # 0

\* the error strings, as the sequence of the parts they are concatenated from
ErrNoData == <<"CSV must have a header row and at least one data row.">>
ErrMissing(missing) ==
    <<"Missing required columns: ", missing, ". Expected: time, Fp1, F3, C3, P3, O1">>
ErrNoValidRows == <<"No valid numeric data rows found in the CSV.">>
ErrTooShort(n) ==
    <<"CSV too short (", n, " rows). Need at least 128 data rows (~0.5 seconds at 256Hz) for accurate frequency analysis.">>

\* colIndex: the position of every required column in the header
ColIndex(header) == [col \in {"time", "fp1", "f3", "c3", "p3", "o1"} |-> indexOf(header, col)]

\* one iteration of the row loop: the sample of a line, or NULL when the
\* line is skipped; a cell beyond the end of the row is undefined and
\* parses as NaN
ParseRowNoLengthCheck(line, width, colIndex) ==
    LET cells == [j \in 1..Len(line) |-> trim(line[j])]
        val(col) == IF colIndex[col] \in 1..Len(cells)
                    THEN parseFloat(cells[colIndex[col]]) ELSE NaN
        sample == [time |-> val("time"), Fp1 |-> val("fp1"), F3 |-> val("f3"),
                   C3 |-> val("c3"), P3 |-> val("p3"), O1 |-> val("o1")]
    IN IF \E f \in DOMAIN sample : isNaN(sample[f]) THEN NULL
       ELSE sample

ParseRow(line, width, colIndex) ==
    LET cells == [j \in 1..Len(line) |-> trim(line[j])]
        val(col) == parseFloat(cells[colIndex[col]])
    IN IF Len(cells) < width THEN NULL
       ELSE LET sample == [time |-> val("time"), Fp1 |-> val("fp1"), F3 |-> val("f3"),
                           C3 |-> val("c3"), P3 |-> val("p3"), O1 |-> val("o1")]
            IN IF \E f \in DOMAIN sample : isNaN(sample[f]) THEN NULL
               ELSE sample

\* the row loop: the samples pushed for lines 2..Len(lines), in order
ParseRows(lines, header) ==
    LET colIndex == ColIndex(header)
        width == Len(header)
    IN SelectSeq([i \in 1..(Len(lines) - 1) |-> ParseRow(lines[i + 1], width, colIndex)],
                 LAMBDA r : r # NULL)

parseCSVSchemaFirst(text) ==
    LET lines == SelectLines(text)
        header == IF lines = <<>> THEN <<>>
                  ELSE [j \in 1..Len(lines[1]) |-> toLowerCase(trim(lines[1][j]))]
        missing == SelectSeq(requiredCols, LAMBDA col : ~includes(header, col))
    IN IF Len(missing) > 0 THEN [signal |-> NULL, error |-> ErrMissing(missing)]
       ELSE IF Len(lines) < 2 THEN [signal |-> NULL, error |-> ErrNoData]
       ELSE LET signal == ParseRows(lines, header)
            IN IF Len(signal) = 0
               THEN [signal |-> NULL, error |-> ErrNoValidRows]
               ELSE IF Len(signal) < MinRows
               THEN [signal |-> NULL, error |-> ErrTooShort(Len(signal))]
               ELSE [signal |-> signal, error |-> NULL]

parseCSV(text) ==
    LET lines == SelectLines(text)
    IN IF Len(lines) < 2 THEN [signal |-> NULL, error |-> ErrNoData]
       ELSE LET header == [j \in 1..Len(lines[1]) |-> toLowerCase(trim(lines[1][j]))]
                missing == SelectSeq(requiredCols, LAMBDA col : ~includes(header, col))
            IN IF Len(missing) > 0 THEN [signal |-> NULL, error |-> ErrMissing(missing)]
               ELSE LET signal == ParseRows(lines, header)
                    IN IF Len(signal) = 0
                       THEN [signal |-> NULL, error |-> ErrNoValidRows]
                       ELSE IF Len(signal) < MinRows
                       THEN [signal |-> NULL, error |-> ErrTooShort(Len(signal))]
                       ELSE [signal |-> signal, error |-> NULL]

(***************************************************************************)
(* SpecCSV: parseCSV applied to texts built from a header, a run of good   *)
(* rows, a run of rows of one malformed kind and a second run of good      *)
(* rows.  Row i holds in column j the cell "i.j", so every cell of a text  *)
(* is distinct and a sample shows which row and column it was read from.   *)
(***************************************************************************)
MaxBad == 2

Headers ==
    << \* time,Fp1,F3,C3,P3,O1
       [cells |-> << <<"t", "i", "m", "e">>, <<"F", "p", "1">>, <<"F", "3">>,
                     <<"C", "3">>, <<"P", "3">>, <<"O", "1">> >>,
        has |-> {"time", "fp1", "f3", "c3", "p3", "o1"},
        at |-> [time |-> 1, fp1 |-> 2, f3 |-> 3, c3 |-> 4, p3 |-> 5, o1 |-> 6]],
       \* " o1 ,P3,c3, F3,FP1,TIME"
       [cells |-> << <<" ", "o", "1", " ">>, <<"P", "3">>, <<"c", "3">>,
                     <<" ", "F", "3">>, <<"F", "P", "1">>, <<"T", "I", "M", "E">> >>,
        has |-> {"time", "fp1", "f3", "c3", "p3", "o1"},
        at |-> [time |-> 6, fp1 |-> 5, f3 |-> 4, c3 |-> 3, p3 |-> 2, o1 |-> 1]],
       \* id,time,Fp1,F3,C3,P3,O1,note
       [cells |-> << <<"i", "d">>, <<"t", "i", "m", "e">>, <<"F", "p", "1">>, <<"F", "3">>,
                     <<"C", "3">>, <<"P", "3">>, <<"O", "1">>, <<"n", "o", "t", "e">> >>,
        has |-> {"time", "fp1", "f3", "c3", "p3", "o1"},
        at |-> [time |-> 2, fp1 |-> 3, f3 |-> 4, c3 |-> 5, p3 |-> 6, o1 |-> 7]],
       \* time,Fp1,F3,C3,P3
       [cells |-> << <<"t", "i", "m", "e">>, <<"F", "p", "1">>, <<"F", "3">>,
                     <<"C", "3">>, <<"P", "3">> >>,
        has |-> {"time", "fp1", "f3", "c3", "p3"},
        at |-> [time |-> 1, fp1 |-> 2, f3 |-> 3, c3 |-> 4, p3 |-> 5]],
       \* P3,Fp1,x
       [cells |-> << <<"P", "3">>, <<"F", "p", "1">>, <<"x">> >>,
        has |-> {"fp1", "p3"},
        at |-> [p3 |-> 1, fp1 |-> 2]] >>

RowKinds == {"short", "long", "nan", "empty", "prefix", "blank"}
PreIn == {0, 1, 100}
PostIn == {0, 27, 28, 99}

\* header 0: the text has no header line (its first row is read as one)
TextParams ==
    [header : 0..Len(Headers), pre : PreIn, kind : {"none"}, nbad : {0}, col : {1},
     post : PostIn]
    \cup [header : 0..Len(Headers), pre : PreIn, kind : {"short", "long", "blank"},
          nbad : 1..MaxBad, col : {1}, post : PostIn]
    \cup [header : 0..Len(Headers), pre : PreIn, kind : {"nan", "empty", "prefix"},
          nbad : 1..MaxBad, col : {1, 2}, post : PostIn]

RECURSIVE ToChars(_)
\* the decimal digits of n >= 0
ToChars(n) ==
    IF n < 10 THEN <<Digits[n + 1]>> ELSE ToChars(n \div 10) \o <<Digits[(n % 10) + 1]>>

\* the cell "i.j", written " i.j " in the even columns
CellOf(i, j) ==
    LET c == ToChars(i) \o <<".", Digits[j + 1]>>
    IN IF j % 2 = 0 THEN <<" ">> \o c \o <<" ">> ELSE c

GoodRow(i, n) == [j \in 1..n |-> CellOf(i, j)]

BadRow(kind, i, n, col) ==
    CASE kind = "short" -> GoodRow(i, n - 1)
      [] kind = "long" -> GoodRow(i, n + 1)
      [] kind = "nan" -> [GoodRow(i, n) EXCEPT ![col] = <<"a", "b", "c">>]
      [] kind = "empty" -> [GoodRow(i, n) EXCEPT ![col] = <<" ">>]
      [] kind = "prefix" -> [GoodRow(i, n) EXCEPT ![col] = ToChars(i) \o <<"a", "b", "c">>]
      [] kind = "blank" -> << <<" ">> >>

\* number of columns of the rows of a text
Width(p) == IF p.header = 0 THEN 6 ELSE Len(Headers[p.header].cells)

TextOf(p) ==
    (IF p.header = 0 THEN <<>> ELSE <<Headers[p.header].cells>>)
    \o [i \in 1..p.pre |-> GoodRow(i, Width(p))]
    \o [k \in 1..p.nbad |-> BadRow(p.kind, p.pre + k, Width(p), p.col)]
    \o [k \in 1..p.post |-> GoodRow(p.pre + p.nbad + k, Width(p))]

CSVInit ==
    /\ AppInit
    /\ stage = "text"
    /\ input \in TextParams
    /\ output = NULL

ParseText ==
    /\ stage = "text"
    /\ output' = parseCSV(TextOf(input))
    /\ stage' = "parsed"
    /\ UNCHANGED <<input, appVars>>

CSVNext == ParseText

SpecCSV == CSVInit /\ [][CSVNext]_vars

(***************************************************************************)
(* Claims about parseCSV, stated against the parameters a text was built   *)
(* from rather than against the parser's own intermediate values.          *)
(***************************************************************************)
RowCount(p) == p.pre + p.nbad + p.post

\* the number of non-blank lines of the text
LineCount(p) ==
    (IF p.header = 0 THEN 0 ELSE 1) + p.pre + p.post
        + (IF p.kind = "blank" THEN 0 ELSE p.nbad)

\* the required columns the first line lacks, in the order of requiredCols;
\* a first line that is a data row names none of them
MissingOf(p) ==
    SelectSeq(requiredCols,
              LAMBDA col : p.header = 0 \/ col \notin Headers[p.header].has)

\* row i lies in the run of malformed rows
IsBadRow(p, i) == i > p.pre /\ i <= p.pre + p.nbad

\* the malformed cell of the text's bad rows lies in a required column
BadCellRequired(p) ==
    \E col \in Headers[p.header].has : Headers[p.header].at[col] = p.col

\* row i has all its cells and a number in every required cell; a row with
\* a cell like "12abc" in a required column is left to prefixKept
RowValid(p, i, prefixKept) ==
    \/ ~IsBadRow(p, i)
    \/ p.kind = "long"
    \/ p.kind \in {"nan", "empty", "prefix"} /\ ~BadCellRequired(p)
    \/ p.kind = "prefix" /\ prefixKept

ValidCount(p, prefixKept) == Cardinality({i \in 1..RowCount(p) : RowValid(p, i, prefixKept)})

\* the sample of the well-formed cells "i.j" of row i
SampleOf(p, i) ==
    LET v(col) == [mant |-> 10 * i + Headers[p.header].at[col], scale |-> 1]
    IN [time |-> v("time"), Fp1 |-> v("fp1"), F3 |-> v("f3"),
        C3 |-> v("c3"), P3 |-> v("p3"), O1 |-> v("o1")]

\* the valid rows of the text, in file order
ValidRows(p) ==
    LET idx == SelectSeq([i \in 1..RowCount(p) |-> i], LAMBDA i : RowValid(p, i, FALSE))
    IN [k \in 1..Len(idx) |-> SampleOf(p, idx[k])]

\* C7: parseCSV reports the first failing check in the order MalformedInput
\* (fewer than 2 non-blank lines, whatever the header), SchemaMismatch (a
\* required column missing, whatever the rows), EmptyDataset (0 valid rows),
\* InsufficientSamples (1..127 valid rows, the message carrying the count
\* and the minimum of 128), and otherwise returns a Signal with no error;
\* exactly one of signal and error is non-null.
C7_CheckOrder ==
    stage = "parsed" =>
        /\ (output.signal = NULL) # (output.error = NULL)
        /\ \E prefixKept \in BOOLEAN :
             LET n == ValidCount(input, prefixKept)
             IN IF LineCount(input) < 2
                THEN output.error = ErrNoData
                ELSE IF MissingOf(input) # <<>>
                THEN output.error # NULL /\ output.error[1] = "Missing required columns: "
                ELSE IF n = 0
                THEN output.error = ErrNoValidRows
                ELSE IF n < 128
                THEN output.error = <<"CSV too short (", n, " rows). Need at least 128 data rows (~0.5 seconds at 256Hz) for accurate frequency analysis.">>
                ELSE output.error = NULL /\ Len(output.signal) = n

\* a header without O1 on its own is MalformedInput, not SchemaMismatch
C7_Witness ==
    /\ stage = "parsed"
    /\ input.header = 4
    /\ RowCount(input) = 0
    /\ output.error = ErrNoData

\* C8: when the header (cells trimmed and lower-cased, any column order)
\* lacks required columns, the error is SchemaMismatch and its message
\* lists exactly the missing columns; a header with all six in any order
\* and letter case is never rejected for schema.
C8_SchemaMismatchNamesMissing ==
    (stage = "parsed" /\ LineCount(input) >= 2 /\ input.header # 0) =>
        IF MissingOf(input) # <<>>
        THEN /\ output.signal = NULL
             /\ Len(output.error) = 3
             /\ output.error[1] = "Missing required columns: "
             /\ output.error[2] = MissingOf(input)
             /\ \A k \in 1..Len(output.error[2]) :
                    output.error[2][k] \notin Headers[input.header].has
        ELSE output.error = NULL \/ output.error[1] # "Missing required columns: "

\* the header time,Fp1,F3,C3,P3 over 199 good rows is rejected naming o1
C8_Witness ==
    /\ stage = "parsed"
    /\ input.header = 4
    /\ input.pre = 100
    /\ input.post = 99
    /\ input.nbad = 0
    /\ Len(output.error) = 3
    /\ output.error[2] = <<"o1">>

\* C9: a row with fewer cells than the header, or with a required cell that
\* holds no number, is dropped without an error of its own: the outcome is
\* decided by the number of valid rows alone, and a returned Signal is the
\* valid rows in file order.
C9_BadRowsDropped ==
    (/\ stage = "parsed"
     /\ input.header \in 1..3
     /\ input.kind # "prefix"
     /\ LineCount(input) >= 2) =>
        LET expected == ValidRows(input)
        IN IF Len(expected) >= MinRows
           THEN output.error = NULL /\ output.signal = expected
           ELSE /\ output.signal = NULL
                /\ IF Len(expected) = 0 THEN output.error = ErrNoValidRows
                   ELSE output.error = ErrTooShort(Len(expected))

\* 200 rows, the 101st with "abc" in a required column, give a Signal of 199
C9_Witness ==
    /\ stage = "parsed"
    /\ input.header = 3
    /\ input.pre = 100
    /\ input.kind = "nan"
    /\ input.nbad = 1
    /\ input.col = 2
    /\ input.post = 99
    /\ output.error = NULL
    /\ Len(output.signal) = 199
    /\ output.signal[101].time = [mant |-> 1022, scale |-> 1]

\* C24: a data row is kept only if each of its six required cells is
\* numeric as a whole: a row whose required cell is empty, holds no number,
\* or holds a number followed by other characters ("12abc") is skipped, so
\* the outcome is that of the other rows.
C24_WholeCellNumeric ==
    (/\ stage = "parsed"
     /\ input.header \in 1..3
     /\ input.kind \in {"nan", "empty", "prefix"}
     /\ BadCellRequired(input)
     /\ LineCount(input) >= 2) =>
        \A expected \in {ValidRows(input)} :
           IF Len(expected) >= MinRows
           THEN output.error = NULL /\ output.signal = expected
           ELSE /\ output.signal = NULL
                /\ IF Len(expected) = 0 THEN output.error = ErrNoValidRows
                   ELSE output.error = ErrTooShort(Len(expected))

(***************************************************************************)
(* Linear forms of generator draws, rounded as toFixed rounds them.        *)
(***************************************************************************)
\* m1 * w1 + m2 * w2 for words w1, w2 and 0 <= m1 + m2 < 2^15, as
\* <<f, h, l>> standing for f * 2^32 + h * 2^16 + l
MulAdd(m1, w1, m2, w2) ==
    LET low == m1 * w1[2] + m2 * w2[2]
        high == m1 * w1[1] + m2 * w2[1] + (low \div W16)
    IN <<high \div W16, high % W16, low % W16>>

\* the integers nearest to (n + m1 * r1 + m2 * r2) / q for the floats
\* r1 = w1 / 2^32 and r2 = w2 / 2^32 and q > 0: what toFixed gives for the
\* double nearest to that value, either neighbour on an exact half
RoundLinSet(n, q, m1, w1, m2, w2) ==
    LET t == MulAdd(m1, w1, m2, w2)
        x == n + t[1]
        fl == x \div q
        \* 2 * (value - (fl + 1/2)) * q = i + 2 * f, f the fraction h, l of t
        i == 2 * x - (2 * fl + 1) * q
        fZero == t[2] = 0 /\ t[3] = 0
        fHalf == t[2] = 32768 /\ t[3] = 0
        fAbove == t[2] > 32768 \/ (t[2] = 32768 /\ t[3] > 0)
        up == i >= 1 \/ (i = 0 /\ ~fZero) \/ (i = -1 /\ fAbove)
        tie == (i = 0 /\ fZero) \/ (i = -1 /\ fHalf)
    IN IF tie THEN {fl, fl + 1} ELSE IF up THEN {fl + 1} ELSE {fl}

RECURSIVE Choices(_)
\* the sequences that take their i-th element from the i-th set
Choices(sets) ==
    IF sets = <<>> THEN {<<>>}
    ELSE {<<h>> \o t : h \in Head(sets), t \in Choices(Tail(sets))}

(***************************************************************************)
(* The simulated pipeline (eegUtils.js).  Powers and SHAP values are in    *)
(* 1/10000, coherences in 1/1000.                                          *)
(***************************************************************************)
BandNames == <<"delta", "theta", "alpha", "beta", "gamma">>

\* every band drawn from the healthy range under the pathology flag too
szMultipliersHealthy == [band \in {"delta", "theta", "alpha", "beta", "gamma"} |-> <<85, 115>>]

\* the multiplier ranges, in 1/100
szMultipliers ==
    [delta |-> <<160, 250>>, theta |-> <<140, 190>>, alpha |-> <<25, 55>>,
     beta |-> <<70, 95>>, gamma |-> <<140, 210>>]
healthyMultiplier == <<85, 115>>

\* parseFloat((base * multiplier).toFixed(4)) for the draw w
BandPowerSet(sz, band, w) ==
    LET range == IF sz THEN szMultipliers[band] ELSE healthyMultiplier
        base == Baseline[band] \div 100
    IN RoundLinSet(base * range[1], 1, base * (range[2] - range[1]), w, 0, w)

\* the body of computeBandPowers, drawing from the generator rng
computeBandPowersRng(sz, rng) ==
    {[delta |-> c[1], theta |-> c[2], alpha |-> c[3], beta |-> c[4], gamma |-> c[5]] :
        c \in Choices([k \in 1..5 |-> BandPowerSet(sz, BandNames[k], DrawFrom(rng, k))])}

computeBandPowers(sz, sd) == computeBandPowersRng(sz, StageRng("computeBandPowers", sd))

features ==
    << [name |-> "α · Fz", band |-> "alpha", region |-> "Frontal"],
       [name |-> "δ · Cz", band |-> "delta", region |-> "Central"],
       [name |-> "θ · F3", band |-> "theta", region |-> "Frontal"],
       [name |-> "γ · Fp1", band |-> "gamma", region |-> "Prefrontal"],
       [name |-> "α · C3", band |-> "alpha", region |-> "Central"],
       [name |-> "Coh · Fz→Pz", band |-> "coh", region |-> "F-P"],
       [name |-> "δ · F4", band |-> "delta", region |-> "Frontal"],
       [name |-> "θ · Pz", band |-> "theta", region |-> "Parietal"],
       [name |-> "α · O1", band |-> "alpha", region |-> "Occipital"],
       [name |-> "β · C4", band |-> "beta", region |-> "Central"],
       [name |-> "γ · F3", band |-> "gamma", region |-> "Frontal"],
       [name |-> "Coh · F3→P3", band |-> "coh", region |-> "F-P"],
       [name |-> "δ · Fp1", band |-> "delta", region |-> "Prefrontal"],
       [name |-> "θ · C3", band |-> "theta", region |-> "Central"],
       [name |-> "α · Fp2", band |-> "alpha", region |-> "Prefrontal"] >>

szSign == [alpha |-> -1, delta |-> 1, theta |-> 1, gamma |-> 1, beta |-> -1, coh |-> -1]
hSign == [alpha |-> 1, delta |-> -1, theta |-> -1, gamma |-> -1, beta |-> 1, coh |-> 1]
szMag ==
    [alpha |-> <<1500, 3500>>, delta |-> <<1000, 2800>>, theta |-> <<800, 2000>>,
     gamma |-> <<800, 2200>>, beta |-> <<500, 1500>>, coh |-> <<800, 1800>>]
hMag ==
    [alpha |-> <<500, 1500>>, delta |-> <<300, 1000>>, theta |-> <<300, 800>>,
     gamma |-> <<300, 800>>, beta |-> <<200, 800>>, coh |-> <<300, 1000>>]

RECURSIVE InsertByAbs(_, _)
\* e placed behind every element whose |value| is not smaller
InsertByAbs(sorted, e) ==
    IF sorted = <<>> THEN <<e>>
    ELSE IF Abs(Head(sorted).value) >= Abs(e.value)
    THEN <<Head(sorted)>> \o InsertByAbs(Tail(sorted), e)
    ELSE <<e>> \o sorted

\* the list left in the order of `features`
SortNone(xs) == xs

RECURSIVE SortByAbs(_)
\* shapValues.sort((a, b) => Math.abs(b.value) - Math.abs(a.value)), stable
SortByAbs(xs) ==
    IF xs = <<>> THEN <<>>
    ELSE InsertByAbs(SortByAbs(SubSeq(xs, 1, Len(xs) - 1)), xs[Len(xs)])

\* const base = mag[0] + rng() * (mag[1] - mag[0]) for the draw w, rounded
\* down to 1/10000
ShapBase(sz, band, w) ==
    LET mag == IF sz THEN szMag[band] ELSE hMag[band]
    IN mag[1] + FloorMul(w, mag[2] - mag[1])

\* noise = (rng() - 0.5) * 0.3 in place of 0.03
ShapValueNoisySet(sz, band, w1, w2) ==
    LET mag == IF sz THEN szMag[band] ELSE hMag[band]
        sign == IF sz THEN szSign[band] ELSE hSign[band]
    IN {sign * v : v \in RoundLinSet(mag[1] - 1500, 1, mag[2] - mag[1], w1, 3000, w2)}

\* sign * (base + noise) to 4 decimals: base = mag[0] + rng() * (mag[1] -
\* mag[0]) and noise = (rng() - 0.5) * 0.03, from the draws w1 and w2
ShapValueSet(sz, band, w1, w2) ==
    LET mag == IF sz THEN szMag[band] ELSE hMag[band]
        sign == IF sz THEN szSign[band] ELSE hSign[band]
    IN {sign * v : v \in RoundLinSet(mag[1] - 150, 1, mag[2] - mag[1], w1, 300, w2)}

\* the body of generateSHAPValues, drawing from the generator rng
generateSHAPValuesRng(sz, rng) ==
    LET values == Choices([k \in 1..Len(features) |->
                      ShapValueSet(sz, features[k].band,
                                   DrawFrom(rng, 2 * k - 1), DrawFrom(rng, 2 * k))])
    IN {SortByAbs([k \in 1..Len(features) |->
                      [name |-> features[k].name, band |-> features[k].band,
                       region |-> features[k].region, value |-> v[k]]]) : v \in values}

generateSHAPValues(sz, sd) == generateSHAPValuesRng(sz, StageRng("generateSHAPValues", sd))

pairs == <<"Fz-Pz", "F3-P3", "F4-P4">>

\* parseFloat((base + (rng() - 0.5) * 0.05).toFixed(3)) with base =
\* 0.25 + rng() * 0.20 or 0.65 + rng() * 0.15
CoherenceWideSet(sz, w1, w2) ==
    IF sz THEN RoundLinSet(250 - 250, 1, 200, w1, 500, w2)
    ELSE RoundLinSet(650 - 250, 1, 150, w1, 500, w2)

CoherenceSet(sz, w1, w2) ==
    IF sz THEN RoundLinSet(250 - 25, 1, 200, w1, 50, w2)
    ELSE RoundLinSet(650 - 25, 1, 150, w1, 50, w2)

\* the body of computeCoherence, drawing from the generator rng
computeCoherenceRng(sz, rng) ==
    {[p \in {pairs[k] : k \in 1..3} |-> c[CHOOSE k \in 1..3 : pairs[k] = p]] :
        c \in Choices([k \in 1..3 |->
                 CoherenceSet(sz, DrawFrom(rng, 2 * k - 1), DrawFrom(rng, 2 * k))])}

computeCoherence(sz, sd) == computeCoherenceRng(sz, StageRng("computeCoherence", sd))

(***************************************************************************)
(* generateEEGSignal.  An amplitude is kept as the draws it is computed    *)
(* from: (lo + r * span) / 100, times (by.lo + by.r * by.span) / 100 when  *)
(* it is scaled; a phase as the draw r of r * 2 * PI; the noise of the     *)
(* samples as the state of the generator when the sample loop starts.      *)
(***************************************************************************)
channels == <<"Fp1", "F3", "C3", "P3", "O1">>
nSamples == 256 * 5

\* the else branch without its four rng() calls
ScaleDrawsNoDiscard(sz) == IF sz THEN 4 ELSE 0

\* the rng() calls between the amplitudes and the phases of a channel: four
\* scalings, or `rng(); rng(); rng(); rng();`
ScaleDraws(sz) == IF sz THEN 4 ELSE 4

\* the rng() calls of one pass of channels.map
SetupDraws(sz) == 5 + ScaleDraws(sz) + 5

Amplitude(lo, span, r, by) == [lo |-> lo, span |-> span, r |-> r, by |-> by]
Scale(sz, lo, span, r) == IF sz THEN [lo |-> lo, span |-> span, r |-> r] ELSE NULL

\* the params of the channel whose first draw is the one after `at`
ChannelParams(sz, rng, at) ==
    LET p == at + 5 + ScaleDraws(sz)
    IN [dA |-> Amplitude(50, 100, DrawFrom(rng, at + 1), Scale(sz, 180, 70, DrawFrom(rng, at + 6))),
        tA |-> Amplitude(30, 50, DrawFrom(rng, at + 2), Scale(sz, 150, 50, DrawFrom(rng, at + 7))),
        aA |-> Amplitude(80, 120, DrawFrom(rng, at + 3), Scale(sz, 30, 30, DrawFrom(rng, at + 8))),
        bA |-> Amplitude(20, 40, DrawFrom(rng, at + 4), NULL),
        gA |-> Amplitude(10, 20, DrawFrom(rng, at + 5), Scale(sz, 150, 70, DrawFrom(rng, at + 9))),
        dP |-> DrawFrom(rng, p + 1), tP |-> DrawFrom(rng, p + 2), aP |-> DrawFrom(rng, p + 3),
        bP |-> DrawFrom(rng, p + 4), gP |-> DrawFrom(rng, p + 5)]

\* the number of rng() calls of one call of generateEEGSignal
SignalDraws(sz) == Len(channels) * SetupDraws(sz) + nSamples * Len(channels)

\* the body of generateEEGSignal, drawing from the generator rng: the points
\* are sample i (from 0), channel ci (from 0) |-> the sines of params[ci] at
\* i / 256 plus (r - 0.5) * 0.6 for the r drawn (5 * i + ci + 1)-th from noise
generateEEGSignalRng(sz, rng) ==
    [nSamples |-> nSamples,
     params |-> [ci \in 1..Len(channels) |-> ChannelParams(sz, rng, (ci - 1) * SetupDraws(sz))],
     noise |-> RngAdvance(rng, Len(channels) * SetupDraws(sz))]

generateEEGSignal(sz, sd) == generateEEGSignalRng(sz, StageRng("generateEEGSignal", sd))

(***************************************************************************)
(* The measured pipeline (csvAnalysis.js).                                 *)
(***************************************************************************)
\* Math.round(1 / (signal[1].time - signal[0].time)), 256 when the signal
\* is shorter than 2 or the difference is not positive
estimateSampleRate(signal) ==
    IF Len(signal) < 2 THEN {256}
    ELSE LET a == signal[1].time
             b == signal[2].time
             sc == IF a.scale > b.scale THEN a.scale ELSE b.scale
             dt == b.mant * Pow10(sc - b.scale) - a.mant * Pow10(sc - a.scale)
         IN IF dt <= 0 THEN {256} ELSE RoundSet(Pow10(sc), dt)

\* the band edges in Hz, doubled: [0.5, 4], [4, 8], [8, 13], [13, 30], [30, 50]
bands ==
    [delta |-> <<1, 8>>, theta |-> <<8, 16>>, alpha |-> <<16, 26>>,
     beta |-> <<26, 60>>, gamma |-> <<60, 100>>]

\* the number of passes of the loop
\* for (freq = Math.ceil(fLow); freq <= Math.floor(Math.min(hi, sfreq / 2)); freq++)
BinCount(band, sfreq) ==
    LET first == (bands[band][1] + 1) \div 2
        top == IF bands[band][2] < sfreq THEN bands[band][2] ELSE sfreq
        last == top \div 2
    IN IF last < first THEN 0 ELSE last - first + 1

\* A double that is not NaN: n / 10000, or Infinity
Fin(n) == [fin |-> n]
Infinity == [inf |-> TRUE]
IsFin(v) == DOMAIN v = {"fin"}

\* The sums of Goertzel powers a band can have before normalisation: 0 when
\* the band has no frequency below the Nyquist limit (the loop adds
\* nothing); otherwise what Math.abs(power) can add up to, the recurrence
\* over the samples not being computed here: values of a bounded grid, and
\* Infinity when s1 * s1 exceeds the largest double.  (A sum is NaN when
\* the power is Infinity - Infinity; the total is then NaN, not > 0, and the
\* sums are returned as they are: this case is left out, and so are sums
\* so small that 4.4 / rawTotal overflows, whose powers are Infinity.)
RawPowerIn == {Fin(0), Fin(1), Fin(3), Fin(10), Infinity}
RawPowerSet(band, sfreq) == IF BinCount(band, sfreq) = 0 THEN {Fin(0)} ELSE RawPowerIn

\* Object.values(bandPowers).reduce((a, b) => a + b, 0)
RawTotal(raw) ==
    IF \E k \in 1..5 : ~IsFin(raw[k]) THEN Infinity
    ELSE Fin(raw[1].fin + raw[2].fin + raw[3].fin + raw[4].fin + raw[5].fin)

\* rawTotal > 0
IsPositive(v) == IF IsFin(v) THEN v.fin > 0 ELSE TRUE

\* parseFloat((v * scale).toFixed(4)) for scale = 4.4 / rawTotal, rawTotal
\* > 0: an infinite rawTotal gives scale = 0, and Infinity * 0 is NaN
ScaledSet(v, rawTotal) ==
    IF IsFin(rawTotal)
    THEN (IF IsFin(v) THEN {Fin(x) : x \in RoundSet(44000 * v.fin, rawTotal.fin)}
          ELSE {Infinity})
    ELSE (IF IsFin(v) THEN {Fin(0)} ELSE {NaN})

\* the powers after `if (rawTotal > 0) { ... }`: left as they are when
\* rawTotal is 0
NormalizedSet(raw) ==
    IF IsPositive(RawTotal(raw))
    THEN Choices([k \in 1..5 |-> ScaledSet(raw[k], RawTotal(raw))])
    ELSE {raw}

\* the runs of computeBandPowersFromSignal on a signal: the sample rate, the
\* sums before normalisation and the powers returned
MeasureBands(signal) ==
    UNION {
        UNION {
            {[sfreq |-> sfreq, raw |-> raw,
              bandPowers |-> [delta |-> c[1], theta |-> c[2], alpha |-> c[3],
                              beta |-> c[4], gamma |-> c[5]]] :
                c \in NormalizedSet(raw)} :
            raw \in Choices([k \in 1..5 |-> RawPowerSet(BandNames[k], sfreq)])} :
        sfreq \in estimateSampleRate(signal)}

computeBandPowersFromSignal(signal) == {m.bandPowers : m \in MeasureBands(signal)}

\* the returned powers that are numbers, in 1/10000
FiniteBandPowers(signal) ==
    {[band \in DOMAIN bp |-> bp[band].fin] :
        bp \in {x \in computeBandPowersFromSignal(signal) : \A band \in DOMAIN x : IsFin(x[band])}}

\* Math.round((bandPowers.alpha || 1) * 10000)
DataSeed(bandPowers) == IF bandPowers.alpha = 0 THEN 10000 ELSE bandPowers.alpha

\* the value of one feature, to 4 decimals, for the draw w:
\*   coh:    (1 - (alpha || 1) / 1.8) * 0.15 + (rng() - 0.5) * 0.03
\*   alpha:  -deviation * 0.3 + (rng() - 0.5) * 0.02
\*   others: deviation * 0.2 + (rng() - 0.5) * 0.02
\* with deviation = (actual - baseline) / baseline
MeasuredShapSet(band, bandPowers, w) ==
    IF band = "coh"
    THEN RoundLinSet(3 * (Baseline.alpha - DataSeed(bandPowers)) - 5400, 36, 10800, w, 0, w)
    ELSE LET q == Baseline[band] \div 1000
             d == bandPowers[band] - Baseline[band]
         IN RoundLinSet((IF band = "alpha" THEN -3 * d ELSE 2 * d) - 100 * q, q,
                        200 * q, w, 0, w)

generateSHAPFromBandPowers(bandPowers) ==
    LET s == DataSeed(bandPowers)
        values == Choices([k \in 1..Len(features) |->
                      MeasuredShapSet(features[k].band, bandPowers, Draw(s, k))])
    IN {SortByAbs([k \in 1..Len(features) |->
                      [name |-> features[k].name, band |-> features[k].band,
                       region |-> features[k].region, value |-> v[k]]]) : v \in values}

\* signal.slice(0, 1280)
Slice1280(signal) == SubSeq(signal, 1, IF Len(signal) < 1280 THEN Len(signal) ELSE 1280)

\* riskResult.score > 50 in place of >= 50
isSZLikeAbove50(score) == score > 50

\* var isSZLike = riskResult.score >= 50
isSZLike(score) == score >= 50

\* steps 2 to 6 of analyzeCSV and its return value, for the band powers
\* bandPowers of step 1
AnalyzeBandPowers(bandPowers, signal) ==
    UNION {
        {[riskScore |-> Num(rr.score), confidence |-> Num(rr.confidence),
          keyMarker |-> Str(rr.keyMarker), keyDeviation |-> rr.keyDeviation,
          classification |-> classifyRisk(rr.score),
          eegSignal |-> Slice1280(signal), bandPowers |-> bandPowers,
          shapValues |-> sh, coherence |-> co] :
            sh \in generateSHAPFromBandPowers(bandPowers),
            co \in computeCoherence(isSZLike(rr.score), Num(DataSeed(bandPowers)))} :
        rr \in computeRiskScore(bandPowers, Num(DataSeed(bandPowers)))}

\* for the band powers that are numbers
analyzeCSV(signal) ==
    UNION {AnalyzeBandPowers(bp, signal) : bp \in FiniteBandPowers(signal)}

(***************************************************************************)
(* Spec: the App component.  One action per handler of App.js and of the   *)
(* sidebar controls that call them; a control that is disabled or not      *)
(* rendered in a state gives the guard of its action.                      *)
(***************************************************************************)
MaxRuns == 3
MaxPending == 2
HistoryCap == 5
\* the analyses started in a run of SpecHistory: enough to fill the history
\* and evict from it
MaxHistoryRuns == 6

\* the number of analyses a behaviour may start
RunLimit == IF stage = "history" THEN MaxHistoryRuns ELSE MaxRuns

\* the seeds typed into the seed field
SeedInputs == {7}

\* the files offered to the app: an accepted one (128 rows sampled once per
\* second) and two rejected ones (one data row; no O1 column)
Files ==
    {[name |-> "rec.csv",
      text |-> [header |-> 1, pre |-> 100, kind |-> "none", nbad |-> 0, col |-> 1, post |-> 28]],
     [name |-> "short.csv",
      text |-> [header |-> 1, pre |-> 1, kind |-> "none", nbad |-> 0, col |-> 1, post |-> 0]],
     [name |-> "no_o1.csv",
      text |-> [header |-> 4, pre |-> 1, kind |-> "none", nbad |-> 0, col |-> 1, post |-> 0]]}

\* what parseCSV returns for each file's text
ParsedFiles == [file \in Files |-> parseCSV(TextOf(file.text))]

\* the values the seed can hold: the initial one, the typed ones and the
\* source tag of a history entry
AppSeeds == {Num(42), Str("CSV")} \cup {Num(n) : n \in SeedInputs}

Init ==
    /\ AppInit
    /\ stage = "app"
    /\ input = NULL
    /\ output = NULL

\* the subject buttons: onClick={() => !csvData && setIsSZ(val)}
SetIsSZ(val) ==
    /\ csvData = NULL
    /\ isSZ' = val
    /\ UNCHANGED <<seed, results, isLoading, hasRun, sessionHistory, csvData, csvFileName,
                   csvError, timers, reads, clock, fnVars>>

\* the seed field (disabled while a file is loaded): setSeed(Number(value))
SetSeed(n) ==
    /\ csvData = NULL
    /\ seed' = Num(n)
    /\ UNCHANGED <<isSZ, results, isLoading, hasRun, sessionHistory, csvData, csvFileName,
                   csvError, timers, reads, clock, fnVars>>

\* handleAnalyze reached while an analysis is pending (a button that is not
\* disabled)
AnalyzeWhileLoading ==
    /\ clock + Len(timers) < RunLimit
    /\ isLoading' = TRUE
    /\ hasRun' = TRUE
    /\ timers' = Append(timers, [isSZ |-> isSZ, seed |-> seed, csvData |-> csvData])
    /\ UNCHANGED <<isSZ, seed, results, sessionHistory, csvData, csvFileName, csvError,
                   reads, clock, fnVars>>

\* handleAnalyze up to setTimeout: the button is disabled while isLoading;
\* the callback keeps the isSZ, seed and csvData of the render it was made in
Analyze ==
    /\ ~isLoading
    /\ clock + Len(timers) < RunLimit
    /\ isLoading' = TRUE
    /\ hasRun' = TRUE
    /\ timers' = Append(timers, [isSZ |-> isSZ, seed |-> seed, csvData |-> csvData])
    /\ UNCHANGED <<isSZ, seed, results, sessionHistory, csvData, csvFileName, csvError,
                   reads, clock, fnVars>>

\* the results the simulated branch of the callback builds
SimulatedResults(sz, sd) ==
    UNION {
        UNION {
            {[riskScore |-> Num(rr.score), confidence |-> Num(rr.confidence),
              keyMarker |-> Str(rr.keyMarker), keyDeviation |-> rr.keyDeviation,
              classification |-> classifyRisk(rr.score),
              eegSignal |-> generateEEGSignal(sz, sd), bandPowers |-> bp,
              shapValues |-> sh, coherence |-> co] :
                sh \in generateSHAPValues(sz, sd), co \in computeCoherence(sz, sd)} :
            rr \in computeRiskScore(bp, sd)} :
        bp \in computeBandPowers(sz, sd)}

\* the results of the simulated branch, for every value it can capture
SimulatedTable == [sz \in BOOLEAN, sd \in AppSeeds |-> SimulatedResults(sz, sd)]

\* the results of the measured branch, for every Signal an upload can store
MeasuredTable ==
    [signal \in {ParsedFiles[file].signal : file \in {f \in Files : ParsedFiles[f].error = NULL}}
        |-> analyzeCSV(signal)]

\* the history entry of a completed analysis; time stands for
\* new Date().toLocaleTimeString()
HistoryEntry(c, analysisResults, time) ==
    [seed |-> IF c.csvData # NULL THEN Str("CSV") ELSE c.seed,
     isSZ |-> IF c.csvData # NULL THEN analysisResults.riskScore.number > 50 ELSE c.isSZ,
     score |-> analysisResults.riskScore,
     level |-> analysisResults.classification.level,
     color |-> analysisResults.classification.color,
     time |-> time]

\* [entry, ...prev] without the slice
PushHistoryNoCap(entry, prev) == <<entry>> \o prev

\* [entry, ...prev].slice(0, 5)
PushHistory(entry, prev) ==
    LET all == <<entry>> \o prev
    IN SubSeq(all, 1, IF Len(all) < HistoryCap THEN Len(all) ELSE HistoryCap)

\* the callback reading the state of the moment it runs
TimerFireCurrent ==
    /\ timers # <<>>
    /\ LET c == [isSZ |-> isSZ, seed |-> seed, csvData |-> csvData]
       IN \E analysisResults \in
                (IF c.csvData # NULL THEN analyzeCSV(c.csvData)
                 ELSE SimulatedTable[c.isSZ, c.seed]) :
            /\ results' = analysisResults
            /\ sessionHistory' =
                 PushHistory(HistoryEntry(c, analysisResults, clock + 1), sessionHistory)
    /\ isLoading' = FALSE
    /\ timers' = Tail(timers)
    /\ clock' = clock + 1
    /\ UNCHANGED <<isSZ, seed, hasRun, csvData, csvFileName, csvError, reads, fnVars>>

\* the callback clearing isLoading without publishing anything
TimerFireNoResults ==
    /\ timers # <<>>
    /\ isLoading' = FALSE
    /\ timers' = Tail(timers)
    /\ clock' = clock + 1
    /\ UNCHANGED <<isSZ, seed, results, sessionHistory, hasRun, csvData, csvFileName,
                   csvError, reads, fnVars>>

\* the setTimeout callback of handleAnalyze
TimerFire ==
    /\ timers # <<>>
    /\ LET c == Head(timers)
       IN \E analysisResults \in
                (IF c.csvData # NULL THEN analyzeCSV(c.csvData)
                 ELSE SimulatedTable[c.isSZ, c.seed]) :
            /\ results' = analysisResults
            /\ sessionHistory' =
                 PushHistory(HistoryEntry(c, analysisResults, clock + 1), sessionHistory)
    /\ isLoading' = FALSE
    /\ timers' = Tail(timers)
    /\ clock' = clock + 1
    /\ UNCHANGED <<isSZ, seed, hasRun, csvData, csvFileName, csvError, reads, fnVars>>

\* handleFileChange and handleDrop: the drop zone is rendered only while no
\* file is loaded; the file is read asynchronously
SelectFile(file) ==
    /\ csvData = NULL
    /\ Cardinality(reads \cup {file}) <= MaxPending
    /\ reads' = reads \cup {file}
    /\ UNCHANGED <<isSZ, seed, results, isLoading, hasRun, sessionHistory, csvData,
                   csvFileName, csvError, timers, clock, fnVars>>

\* the upload handler leaving csvData as it is when the file is rejected
handleCSVUploadKeepData(file) ==
    /\ file \in reads
    /\ reads' = reads \ {file}
    /\ \E parsed \in {ParsedFiles[file]} :
          IF parsed.error # NULL
          THEN /\ csvError' = parsed.error
               /\ UNCHANGED <<csvData, csvFileName>>
          ELSE /\ csvData' = parsed.signal
               /\ csvFileName' = file.name
               /\ csvError' = NULL
    /\ UNCHANGED <<isSZ, seed, results, isLoading, hasRun, sessionHistory, timers,
                   clock, fnVars>>

\* reader.onload: handleCSVUpload(text, fileName)
handleCSVUpload(file) ==
    /\ file \in reads
    /\ reads' = reads \ {file}
    /\ \E parsed \in {ParsedFiles[file]} :
          IF parsed.error # NULL
          THEN /\ csvError' = parsed.error
               /\ csvData' = NULL
               /\ csvFileName' = ""
          ELSE /\ csvData' = parsed.signal
               /\ csvFileName' = file.name
               /\ csvError' = NULL
    /\ UNCHANGED <<isSZ, seed, results, isLoading, hasRun, sessionHistory, timers,
                   clock, fnVars>>

\* the clear button, rendered only while a file is loaded
handleCSVClear ==
    /\ csvData # NULL
    /\ csvData' = NULL
    /\ csvFileName' = ""
    /\ csvError' = NULL
    /\ UNCHANGED <<isSZ, seed, results, isLoading, hasRun, sessionHistory, timers,
                   reads, clock, fnVars>>

\* a click on the i-th item of the history list
handleLoadHistory(i) ==
    /\ i \in 1..Len(sessionHistory)
    /\ isSZ' = sessionHistory[i].isSZ
    /\ seed' = sessionHistory[i].seed
    /\ UNCHANGED <<results, isLoading, hasRun, sessionHistory, csvData, csvFileName,
                   csvError, timers, reads, clock, fnVars>>

Next ==
    \/ \E val \in BOOLEAN : SetIsSZ(val)
    \/ \E n \in SeedInputs : SetSeed(n)
    \/ Analyze
    \/ TimerFire
    \/ \E file \in Files : SelectFile(file)
    \/ \E file \in Files : handleCSVUpload(file)
    \/ handleCSVClear
    \/ \E i \in 1..HistoryCap : handleLoadHistory(i)

Spec == Init /\ [][Next]_vars

\* C10: while the error of a rejected upload is outstanding, no analysis
\* publishes results computed by the simulated pipeline (the branch the
\* callback takes when it holds no csvData).
C10_NoSimulatedResultsWhileRejected ==
    [][(csvError # NULL /\ timers # <<>> /\ Head(timers).csvData = NULL)
          => results' = results]_vars

(***************************************************************************)
(* SpecHistory: the App component over runs long enough to fill the        *)
(* session history, with one accepted file, the subject type and the seed  *)
(* changed by loading history entries only.                                *)
(***************************************************************************)
HistoryFile == CHOOSE file \in Files : file.name = "rec.csv"

HistoryInit ==
    /\ AppInit
    /\ stage = "history"
    /\ input = NULL
    /\ output = NULL

HistoryNext ==
    \/ Analyze
    \/ TimerFire
    \/ SelectFile(HistoryFile)
    \/ handleCSVUpload(HistoryFile)
    \/ handleCSVClear
    \/ \E i \in 1..HistoryCap : handleLoadHistory(i)

SpecHistory == HistoryInit /\ [][HistoryNext]_vars

\* the first n elements of a sequence
Take(xs, n) == SubSeq(xs, 1, IF Len(xs) < n THEN Len(xs) ELSE n)

\* C11: the session history never holds more than 5 entries and is ordered
\* most-recent-first; a step that completes an analysis prepends exactly one
\* entry (the one of that analysis) and keeps the previous entries in order,
\* dropping only the oldest when 5 were held; no other step changes it.
C11_HistoryCappedNewestFirst ==
    [][/\ Len(sessionHistory') <= 5
       /\ \A i \in 1..(Len(sessionHistory') - 1) :
              sessionHistory'[i].time > sessionHistory'[i + 1].time
       /\ IF clock' = clock + 1
          THEN /\ Len(sessionHistory') >= 1
               /\ sessionHistory'[1].time = clock'
               /\ sessionHistory'[1].score = results'.riskScore
               /\ Tail(sessionHistory') = Take(sessionHistory, 4)
          ELSE sessionHistory' = sessionHistory]_vars

C11_Witness ==
    /\ stage = "history"
    /\ clock = 6
    /\ Len(sessionHistory) = 5
    /\ sessionHistory[1].time = 6
    /\ sessionHistory[5].time = 2

(***************************************************************************)
(* SpecCalls: the seeded functions of eegUtils.js called one after another *)
(* in any order with any arguments.  input is the call whose results are   *)
(* compared; output holds the last call made: its function and arguments,  *)
(* the first values its generator returned, its result, the generator it   *)
(* left behind, the result of the first call that was made with the        *)
(* arguments of input, and how many calls followed that one (up to 2).     *)
(***************************************************************************)
MaxDrawn == 6
SeededFns ==
    {"generateEEGSignal", "computeBandPowers", "computeRiskScore",
     "generateSHAPValues", "computeCoherence"}
CallSeeds == {0, 42}
CallsIn == [fn : SeededFns, isSZ : BOOLEAN, seed : CallSeeds]

\* the number of rng() calls of one call of fn
DrawCount(fn, sz) ==
    CASE fn = "generateEEGSignal" -> SignalDraws(sz)
      [] fn = "computeBandPowers" -> Len(BandNames)
      [] fn = "computeRiskScore" -> 1
      [] fn = "generateSHAPValues" -> 2 * Len(features)
      [] fn = "computeCoherence" -> 2 * Len(pairs)

\* what the call returns when its generator is rng; computeRiskScore is
\* given the band powers of the same subject type and seed, as in
\* handleAnalyze
RunStage(call, rng) ==
    CASE call.fn = "generateEEGSignal" -> {generateEEGSignalRng(call.isSZ, rng)}
      [] call.fn = "computeBandPowers" -> computeBandPowersRng(call.isSZ, rng)
      [] call.fn = "computeRiskScore" ->
            UNION {computeRiskScoreRng(bp, rng) :
                      bp \in computeBandPowers(call.isSZ, Num(call.seed))}
      [] call.fn = "generateSHAPValues" -> generateSHAPValuesRng(call.isSZ, rng)
      [] call.fn = "computeCoherence" -> computeCoherenceRng(call.isSZ, rng)

\* The value a call returns among those the operators allow.  Where the
\* exact value to round is a decimal half, the operators give both
\* neighbours, the double the code rounds lying on one side of the half;
\* which side is fixed by the operands, so the same operands give the same
\* value in every call.
Resolve(values) == CHOOSE v \in values : TRUE

CallsInit ==
    /\ AppInit
    /\ stage = "calls"
    /\ input \in CallsIn
    /\ output = [call |-> NULL, drawn |-> <<>>, result |-> NULL, rng |-> NULL,
                 first |-> NULL, since |-> 0]

Call(call) ==
    /\ stage = "calls"
    /\ \E rng \in {NewGenerator(output.rng, SeedPlus(Num(call.seed), SeedOffset[call.fn]))} :
          \E r \in {Resolve(RunStage(call, rng))} :
             LET n == DrawCount(call.fn, call.isSZ)
             IN output' =
                  [call |-> call,
                   drawn |-> [k \in 1..(IF n < MaxDrawn THEN n ELSE MaxDrawn) |->
                                 DrawFrom(rng, k)],
                   result |-> r,
                   rng |-> RngAdvance(rng, n),
                   first |-> IF output.first = NULL /\ call = input THEN r ELSE output.first,
                   since |-> IF output.first = NULL THEN 0
                             ELSE IF output.since < 2 THEN output.since + 1 ELSE 2]
    /\ UNCHANGED <<stage, input, appVars>>

CallsNext == \E call \in CallsIn : Call(call)

SpecCalls == CallsInit /\ [][CallsNext]_vars

\* C12: whatever was called before, a stage draws the values of a generator
\* of its own seeded seed + offset (signal 0, band powers 1000, risk score
\* 2000, attribution 3000, coherence 4000): the values the last call drew
\* are the first values of that generator, untouched by the draws of the
\* calls made before it.
C12_OwnGeneratorPerStage ==
    (stage = "calls" /\ output.call # NULL) =>
        LET off == CASE output.call.fn = "generateEEGSignal" -> 0
                     [] output.call.fn = "computeBandPowers" -> 1000
                     [] output.call.fn = "computeRiskScore" -> 2000
                     [] output.call.fn = "generateSHAPValues" -> 3000
                     [] output.call.fn = "computeCoherence" -> 4000
        IN /\ Len(output.drawn) >= 1
           /\ \A k \in 1..Len(output.drawn) :
                 output.drawn[k] = Draw(output.call.seed + off, k)

\* the Power Estimator called for seed 42 after the Signal Generator was
\* called for seed 42 (and one more call at least)
C12_Witness ==
    /\ stage = "calls"
    /\ input = [fn |-> "generateEEGSignal", isSZ |-> FALSE, seed |-> 42]
    /\ output.first # NULL
    /\ output.since = 2
    /\ output.call = [fn |-> "computeBandPowers", isSZ |-> FALSE, seed |-> 42]
    /\ Len(output.drawn) = 5
    /\ output.drawn[1] = Draw(1042, 1)

\* C13: for the same seed the two branches of generateEEGSignal make the
\* same number of draws per channel, so the phases, the beta amplitude and
\* the generator the noise is drawn from are the same under both flags, and
\* the delta, theta, alpha and gamma amplitudes (scaled under one flag only)
\* differ.
C13_BranchLengthInvariance ==
    (stage = "calls" /\ output.call # NULL /\ output.call.fn = "generateEEGSignal") =>
        \A a \in {output.result} :
        \A b \in {generateEEGSignal(~output.call.isSZ, Num(output.call.seed))} :
           /\ SetupDraws(TRUE) = SetupDraws(FALSE)
           /\ a.noise = b.noise
           /\ a.nSamples = b.nSamples
           /\ \A ci \in 1..5 :
                 /\ \A ph \in {"dP", "tP", "aP", "bP", "gP"} : a.params[ci][ph] = b.params[ci][ph]
                 /\ a.params[ci].bA = b.params[ci].bA
                 /\ \A amp \in {"dA", "tA", "aA", "gA"} :
                       /\ a.params[ci][amp] # b.params[ci][amp]
                       /\ a.params[ci][amp].r = b.params[ci][amp].r
                       /\ (a.params[ci][amp].by = NULL) # (b.params[ci][amp].by = NULL)

C13_Witness ==
    /\ stage = "calls"
    /\ output.call = [fn |-> "generateEEGSignal", isSZ |-> TRUE, seed |-> 42]
    /\ output.result.params[5].dA.by # NULL
    /\ output.result.params[5].gP = Draw(42, 70)
    /\ output.result.noise = RngState(42, 70)

C17_PathologyShiftsPowers ==
    (stage = "calls" /\ output.call # NULL /\ output.call.fn = "computeBandPowers"
        /\ output.call.isSZ) =>
        \A sd \in {Num(output.call.seed)} :
        \A sick \in computeBandPowers(TRUE, sd) \cup {output.result} :
        \A healthy \in computeBandPowers(FALSE, sd) :
           /\ sick.alpha < healthy.alpha
           /\ sick.delta > healthy.delta
           /\ sick.theta > healthy.theta
           /\ sick.gamma > healthy.gamma
           /\ \A rs \in computeRiskScore(sick, sd) :
              \A rh \in computeRiskScore(healthy, sd) : rs.score > rh.score

\* computeBandPowers(true, 42): alpha below 55% of its baseline, delta at
\* 160% or more
C17_Witness ==
    /\ stage = "calls"
    /\ output.call = [fn |-> "computeBandPowers", isSZ |-> TRUE, seed |-> 42]
    /\ output.result.alpha <= 9900
    /\ output.result.delta >= 19200
    /\ \E rs \in computeRiskScore(output.result, Num(42)) : rs.score >= 45

\* C18: computeCoherence returns the three pairs Fz-Pz, F3-P3 and F4-P4;
\* each value is within 0.025 (and the rounding to 3 decimals) of a base
\* drawn from [0.25, 0.45] under the flag and from [0.65, 0.80] without it,
\* lies in [0, 1], and every value under the flag is strictly below every
\* value without it.
C18_CoherenceRanges ==
    (stage = "calls" /\ output.call # NULL /\ output.call.fn = "computeCoherence") =>
        \A sz \in {output.call.isSZ} :
        \A r \in {output.result} :
           /\ DOMAIN r = {"Fz-Pz", "F3-P3", "F4-P4"}
           /\ Len(output.drawn) = 6
           /\ \A k \in 1..3 :
                \A v \in {r[pairs[k]]} :
                \A base \in {IF sz THEN 250 + FloorMul(output.drawn[2 * k - 1], 200)
                             ELSE 650 + FloorMul(output.drawn[2 * k - 1], 150)} :
                   /\ v \in 0..1000
                   /\ base \in (IF sz THEN 250..450 ELSE 650..800)
                   /\ v >= base - 25
                   /\ v <= base + 1 + 25
           /\ \A sd \in CallSeeds :
              \A other \in computeCoherence(~sz, Num(sd)) :
              \A p \in DOMAIN r : \A q \in DOMAIN other :
                 IF sz THEN r[p] < other[q] ELSE other[q] < r[p]

\* computeCoherence(true, 42) with values off their base
C18_Witness ==
    /\ stage = "calls"
    /\ output.call = [fn |-> "computeCoherence", isSZ |-> TRUE, seed |-> 42]
    /\ \A k \in 1..3 : output.result[pairs[k]] \in 225..475
    /\ \E k \in 1..3 :
          output.result[pairs[k]] # 250 + FloorMul(output.drawn[2 * k - 1], 200)

(***************************************************************************)
(* SpecBands: computeBandPowersFromSignal on signals of several sample     *)
(* rates.  Only the time of the first two samples is read by the model.    *)
(***************************************************************************)
Sample(mant, scale) ==
    LET zero == [mant |-> 0, scale |-> 0]
    IN [time |-> [mant |-> mant, scale |-> scale],
        Fp1 |-> zero, F3 |-> zero, C3 |-> zero, P3 |-> zero, O1 |-> zero]

\* signals sampled at 1 Hz, 20 Hz and 256 Hz, one with a repeated time and
\* one of a single sample (both taken as 256 Hz)
BandSignals ==
    {<<Sample(0, 0), Sample(1, 0)>>,
     <<Sample(0, 0), Sample(5, 2)>>,
     <<Sample(0, 0), Sample(390625, 8)>>,
     <<Sample(1, 0), Sample(1, 0)>>,
     <<Sample(0, 0)>>}

BandsInit ==
    /\ AppInit
    /\ stage = "signal"
    /\ input \in BandSignals
    /\ output = NULL

Measure ==
    /\ stage = "signal"
    /\ \E m \in MeasureBands(input) : output' = m
    /\ stage' = "measured"
    /\ UNCHANGED <<input, appVars>>

BandsNext == Measure

SpecBands == BandsInit /\ [][BandsNext]_vars

\* C15 (as stated): when the total of the raw band powers is positive, each
\* returned power is raw * 4.4 / rawTotal rounded to 4 decimals, so the five
\* sum to 4.4 within the rounding error (5 half units of the last decimal);
\* when the total is zero, the five powers are zero.
C15_NormalizedToTarget ==
    stage = "measured" =>
        IF \A k \in 1..5 : output.raw[k] = Fin(0)
        THEN \A band \in DOMAIN output.bandPowers : output.bandPowers[band] = Fin(0)
        ELSE /\ \A band \in DOMAIN output.bandPowers : IsFin(output.bandPowers[band])
             /\ \A k \in 1..5 : IsFin(output.raw[k])
             /\ \A t \in {output.raw[1].fin + output.raw[2].fin + output.raw[3].fin
                               + output.raw[4].fin + output.raw[5].fin} :
                   /\ \A k \in 1..5 :
                         2 * Abs(output.bandPowers[BandNames[k]].fin * t
                                   - 44000 * output.raw[k].fin) <= t
                   /\ 2 * Abs(output.bandPowers.delta.fin + output.bandPowers.theta.fin
                                + output.bandPowers.alpha.fin + output.bandPowers.beta.fin
                                + output.bandPowers.gamma.fin - 44000) <= 5

(***************************************************************************)
(* SpecPipeline: one analysis, as the timeout callback of handleAnalyze    *)
(* computes it: the simulated pipeline for a subject type and a seed, or   *)
(* the measured pipeline from the band powers of an uploaded signal (the   *)
(* subject type and seed of the sidebar being what they are).              *)
(***************************************************************************)
\* band powers whose scores are 49, 50 and 51
NearThreshold ==
    {[delta |-> d, theta |-> 7000, alpha |-> 9000, beta |-> 5000, gamma |-> 2000] :
        d \in {26000, 26500, 27000}}

MeasuredIn == BandPowersIn \cup NearThreshold

PipelineIn ==
    [mode : {"simulated"}, isSZ : BOOLEAN, seed : SeedIn]
    \cup [mode : {"measured"}, isSZ : BOOLEAN, seed : {42}, bandPowers : MeasuredIn]

PipelineInit ==
    /\ AppInit
    /\ stage = "pipeline"
    /\ input \in PipelineIn
    /\ output = NULL

RunSimulated ==
    /\ stage = "pipeline"
    /\ input.mode = "simulated"
    /\ \E r \in SimulatedResults(input.isSZ, Num(input.seed)) : output' = r
    /\ stage' = "analyzed"
    /\ UNCHANGED <<input, appVars>>

RunMeasured ==
    /\ stage = "pipeline"
    /\ input.mode = "measured"
    /\ \E r \in AnalyzeBandPowers(input.bandPowers, <<>>) : output' = r
    /\ stage' = "analyzed"
    /\ UNCHANGED <<input, appVars>>

PipelineNext == RunSimulated \/ RunMeasured

SpecPipeline == PipelineInit /\ [][PipelineNext]_vars

\* C16: in both modes the attribution list has exactly 15 entries and is
\* non-increasing in absolute value from first to last.
C16_AttributionSorted ==
    stage = "analyzed" =>
        /\ Len(output.shapValues) = 15
        /\ \A i \in 1..14 :
              Abs(output.shapValues[i].value) >= Abs(output.shapValues[i + 1].value)

\* a measured-mode list (all powers zero) that the sort has reordered
C16_Witness ==
    /\ stage = "analyzed"
    /\ input.mode = "measured"
    /\ \A band \in DOMAIN input.bandPowers : input.bandPowers[band] = 0
    /\ Len(output.shapValues) = 15
    /\ Abs(output.shapValues[1].value) > Abs(output.shapValues[15].value)
    /\ \E i \in 1..15 : output.shapValues[i].name # features[i].name

\* C19: in measured mode the coherence values are those of the elevated
\* profile (base 0.25 to 0.45, so at most 0.475) exactly when the score is
\* 50 or more, and those of the low-risk profile (base 0.65 to 0.80, so at
\* least 0.625) otherwise, whatever subject type is selected.
C19_ElevatedFromScore ==
    (stage = "analyzed" /\ input.mode = "measured") =>
        \A p \in DOMAIN output.coherence :
            IF output.riskScore.number >= 50
            THEN output.coherence[p] \in 225..475
            ELSE output.coherence[p] \in 625..825

\* a score of exactly 50 with the healthy subject type selected
C19_Witness ==
    /\ stage = "analyzed"
    /\ input.mode = "measured"
    /\ ~input.isSZ
    /\ output.riskScore = Num(50)
    /\ \A p \in DOMAIN output.coherence : output.coherence[p] <= 475

\* the position in `features` of the entry called name
FeatureIndex(name) == CHOOSE k \in 1..Len(features) : features[k].name = name

\* the value the statement gives a feature for the draw w: the alpha power
\* as it is in the coherence term, (1 - alphaPower / 1.8) * 0.15 + noise
StatedShapSet(band, bandPowers, w) ==
    IF band = "coh"
    THEN RoundLinSet(3 * (Baseline.alpha - bandPowers.alpha) - 5400, 36, 10800, w, 0, w)
    ELSE LET q == Baseline[band] \div 1000
             d == bandPowers[band] - Baseline[band]
         IN RoundLinSet((IF band = "alpha" THEN -3 * d ELSE 2 * d) - 100 * q, q,
                        200 * q, w, 0, w)

\* C23: in measured mode, for every band powers, an alpha power of 0
\* included, the generator is seeded with round(alphaPower * 10000) and
\* the k-th feature is, to 4 decimals, (1 - alphaPower / 1.8) * 0.15 +
\* noise for a coherence tag, -deviation * 0.3 + noise for an alpha tag and
\* deviation * 0.2 + noise for any other tag, the noise coming from the
\* k-th value of that generator.
C23_MeasuredAttributionValues ==
    (stage = "analyzed" /\ input.mode = "measured") =>
        \A bp \in {input.bandPowers} :
        \A i \in 1..Len(output.shapValues) :
        \A f \in {output.shapValues[i]} :
           f.value \in StatedShapSet(f.band, bp, Draw(bp.alpha, FeatureIndex(f.name)))

(***************************************************************************)
(* SpecDownstream: steps 2 to 6 of analyzeCSV on band powers given as      *)
(* doubles.  A power is a number of 1/10000 or Infinity, which is what     *)
(* computeBandPowersFromSignal returns when 4.4 / rawTotal overflows; a    *)
(* finite power of 1e308 overflows the same products of the scorer.        *)
(***************************************************************************)
NegInfinity == [neginf |-> TRUE]

\* a + b
AddDouble(a, b) ==
    IF a = NaN \/ b = NaN THEN NaN
    ELSE IF IsFin(a) /\ IsFin(b) THEN Fin(a.fin + b.fin)
    ELSE IF IsFin(a) THEN b
    ELSE IF IsFin(b) THEN a
    ELSE IF a = b THEN a ELSE NaN

\* b > a
GreaterDouble(b, a) ==
    IF a = NaN \/ b = NaN THEN FALSE
    ELSE IF IsFin(a) /\ IsFin(b) THEN b.fin > a.fin
    ELSE IF b = Infinity THEN a # Infinity
    ELSE IF b = NegInfinity THEN FALSE
    ELSE a = NegInfinity

\* the finite powers as they are, 0 in place of the others
FiniteView(bandPowers) ==
    [band \in DOMAIN bandPowers |->
        IF IsFin(bandPowers[band]) THEN bandPowers[band].fin ELSE 0]

\* parseFloat((ratio * weight).toFixed(2)): "Infinity" and "-Infinity" are
\* what toFixed prints and parseFloat reads back
ComponentDoubleSet(band, v) ==
    IF IsFin(v) THEN {Fin(x) : x \in ComponentSet(band, v.fin)}
    ELSE IF band = "alpha" THEN {NegInfinity} ELSE {Infinity}

ComponentsDoubleSet(bp) ==
    {[delta |-> cd, theta |-> ct, alpha |-> ca, gamma |-> cg] :
        cd \in ComponentDoubleSet("delta", bp.delta),
        ct \in ComponentDoubleSet("theta", bp.theta),
        ca \in ComponentDoubleSet("alpha", bp.alpha),
        cg \in ComponentDoubleSet("gamma", bp.gamma)}

\* Object.values(components).reduce((a, b) => a + b, 0)
RawScoreDouble(c) ==
    AddDouble(AddDouble(AddDouble(AddDouble(Fin(0), c.delta), c.theta), c.alpha), c.gamma)

\* Math.min(100, Math.max(0, Math.round(rawScore * 1.2))): Math.round,
\* Math.max and Math.min return NaN for NaN
ScoreDoubleSet(rawScore) ==
    IF IsFin(rawScore)
    THEN {Fin(Clamp(x, 0, 100)) : x \in RoundSet(12 * rawScore.fin, 1000)}
    ELSE IF rawScore = Infinity THEN {Fin(100)}
    ELSE IF rawScore = NegInfinity THEN {Fin(0)}
    ELSE {NaN}

RECURSIVE ReduceKeyDouble(_, _, _)
\* Object.entries(components).reduce((a, b) => b[1] > a[1] ? b : a)[0]
ReduceKeyDouble(c, a, i) ==
    IF i > Len(ScoredBands) THEN a
    ELSE ReduceKeyDouble(c, IF GreaterDouble(c[ScoredBands[i]], c[a])
                            THEN ScoredBands[i] ELSE a, i + 1)

KeyBandDouble(c) == ReduceKeyDouble(c, ScoredBands[1], 2)

\* the template string of the key band: Math.round(Infinity) prints as
\* "Infinity"
DeviationDoubleSet(band, v) ==
    IF IsFin(v)
    THEN {[sign |-> d.sign, percent |-> Fin(d.percent), tail |-> d.tail] :
            d \in DeviationSet(band, v.fin)}
    ELSE {[sign |-> IF band = "alpha" THEN "-" ELSE "+",
           percent |-> IF band = "alpha" THEN NegInfinity ELSE Infinity,
           tail |-> IF band = "alpha" THEN "% below normal" ELSE "% above normal"]}

\* Math.round((bandPowers.alpha || 1) * 10000), then seed |= 0 in the
\* generator: 0 for Infinity
DataSeedDouble(bandPowers) ==
    IF IsFin(bandPowers.alpha) THEN DataSeed(FiniteView(bandPowers)) ELSE 0

\* mulberry32(seed + offset) of a stage: Infinity + offset is Infinity
DataRng(fn, bandPowers) ==
    IF IsFin(bandPowers.alpha)
    THEN StageRng(fn, Num(DataSeed(FiniteView(bandPowers))))
    ELSE mulberry32(0)

\* computeRiskScore on doubles
computeRiskScoreDouble(bandPowers, rng) ==
    UNION {
        UNION {
            {[score |-> sc, confidence |-> Confidence(DrawFrom(rng, 1)),
              keyMarker |-> markerMap[keyBand],
              keyDeviation |-> dv, components |-> c] :
                sc \in ScoreDoubleSet(RawScoreDouble(c)),
                dv \in DeviationDoubleSet(keyBand, bandPowers[keyBand])} :
            keyBand \in {KeyBandDouble(c)}} :
        c \in ComponentsDoubleSet(bandPowers)}

\* classifyRisk: NaN >= 60 and NaN >= 40 are false
classifyRiskDouble(score) == IF IsFin(score) THEN classifyRisk(score.fin) ELSE LowRisk

\* riskResult.score >= 50
isSZLikeDouble(score) == IsFin(score) /\ isSZLike(score.fin)

\* the value of one feature: an infinite deviation, or an infinite alpha
\* ratio for "coh", makes the value infinite whatever the noise
MeasuredShapDoubleSet(band, bandPowers, w) ==
    IF IsFin(bandPowers[IF band = "coh" THEN "alpha" ELSE band])
    THEN {Fin(x) : x \in MeasuredShapSet(band, FiniteView(bandPowers), w)}
    ELSE IF band \in {"coh", "alpha"} THEN {NegInfinity} ELSE {Infinity}

\* Math.abs(b.value) - Math.abs(a.value) <= 0, a NaN difference (Infinity -
\* Infinity) counting as 0 in the sort
AbsNotSmaller(a, b) ==
    IF IsFin(a) /\ IsFin(b) THEN Abs(a.fin) >= Abs(b.fin)
    ELSE ~IsFin(a)

RECURSIVE InsertByAbsDouble(_, _)
InsertByAbsDouble(sorted, e) ==
    IF sorted = <<>> THEN <<e>>
    ELSE IF AbsNotSmaller(Head(sorted).value, e.value)
    THEN <<Head(sorted)>> \o InsertByAbsDouble(Tail(sorted), e)
    ELSE <<e>> \o sorted

RECURSIVE SortByAbsDouble(_)
SortByAbsDouble(xs) ==
    IF xs = <<>> THEN <<>>
    ELSE InsertByAbsDouble(SortByAbsDouble(SubSeq(xs, 1, Len(xs) - 1)), xs[Len(xs)])

\* generateSHAPFromBandPowers on doubles
generateSHAPFromDoubles(bandPowers) ==
    {SortByAbsDouble([k \in 1..Len(features) |->
                        [name |-> features[k].name, band |-> features[k].band,
                         region |-> features[k].region, value |-> v[k]]]) :
        v \in Choices([k \in 1..Len(features) |->
                 MeasuredShapDoubleSet(features[k].band, bandPowers,
                                       Draw(DataSeedDouble(bandPowers), k))])}

\* steps 2 to 6 of analyzeCSV and its return value
AnalyzeDoubles(bandPowers) ==
    UNION {
        {[riskScore |-> rr.score, confidence |-> Num(rr.confidence),
          keyMarker |-> Str(rr.keyMarker), keyDeviation |-> rr.keyDeviation,
          classification |-> classifyRiskDouble(rr.score),
          bandPowers |-> bandPowers, shapValues |-> sh, coherence |-> co] :
            sh \in generateSHAPFromDoubles(bandPowers),
            co \in computeCoherenceRng(isSZLikeDouble(rr.score),
                                       DataRng("computeCoherence", bandPowers))} :
        rr \in computeRiskScoreDouble(bandPowers, DataRng("computeRiskScore", bandPowers))}

\* non-negative powers: zero, the healthy alpha, a power above every
\* baseline, and Infinity
PowerIn == {Fin(0), Fin(18000), Fin(26500), Infinity}

DownstreamInit ==
    /\ AppInit
    /\ stage = "downstream"
    /\ input \in [delta : PowerIn, theta : PowerIn, alpha : PowerIn,
                  beta : {Fin(0), Infinity}, gamma : PowerIn]
    /\ output = NULL

RunDownstream ==
    /\ stage = "downstream"
    /\ \E r \in AnalyzeDoubles(input) : output' = r
    /\ stage' = "analyzed"
    /\ UNCHANGED <<input, appVars>>

DownstreamNext == RunDownstream

SpecDownstream == DownstreamInit /\ [][DownstreamNext]_vars

\* C20: for any band powers with non-negative powers, all zero included,
\* the stages after the band powers return a complete result with no NaN:
\* an integer score in 0..100, one of the four key markers with a deviation
\* string, one of the three classifications, 15 numeric attribution values
\* and 3 numeric coherence values.
C20_CompleteResult ==
    stage = "analyzed" =>
        /\ output.riskScore \in {Fin(n) : n \in 0..100}
        /\ output.confidence \in {Num(n) : n \in 80..95}
        /\ output.keyMarker \in
              {Str("δ Elevation"), Str("θ Elevation"), Str("α Suppression"),
               Str("γ Dysregulation")}
        /\ output.keyDeviation.sign \in {"+", "-"}
        /\ output.keyDeviation.tail \in {"% above normal", "% below normal"}
        /\ output.classification \in {HighRisk, Moderate, LowRisk}
        /\ Len(output.shapValues) = 15
        /\ \A i \in 1..15 : output.shapValues[i].value # NaN
        /\ DOMAIN output.coherence = {"Fz-Pz", "F3-P3", "F4-P4"}
        /\ \A p \in DOMAIN output.coherence : output.coherence[p] \in 0..1000

(***************************************************************************)
(* SpecLive: SpecHistory with the browser firing every timer it was given. *)
(* setTimeout(cb, 1500) runs cb once the delay has passed, so a pending    *)
(* timer does not stay pending forever.                                    *)
(***************************************************************************)
\* a pending timer elapses.  Only TimerFire advances clock, and it can run
\* whenever a timer is pending: a step of TimerElapses that changes clock
\* is a step of TimerFire, and the two are enabled in the same states.
TimerElapses == timers # <<>> /\ clock' = clock + 1

SpecLive == HistoryInit /\ [][HistoryNext]_vars /\ WF_clock(TimerElapses)

\* C25: at most one analysis is in flight (no timer is started while one is
\* pending, and isLoading is true exactly while one is pending); every
\* started analysis completes; and a completion publishes results, adds
\* exactly one entry at the head of the history and sets isLoading to
\* false.
C25_OneAnalysisInFlight ==
    /\ [](Len(timers) <= 1 /\ (isLoading <=> timers # <<>>))
    /\ (isLoading ~> ~isLoading)
    /\ [][clock' # clock =>
            /\ isLoading /\ ~isLoading'
            /\ timers' = <<>>
            /\ results' # EMPTY_RESULTS
            /\ Len(sessionHistory') >= 1
            /\ sessionHistory'[1].score = results'.riskScore
            /\ sessionHistory'[1].time = clock'
            /\ Tail(sessionHistory') = Take(sessionHistory, HistoryCap - 1)]_vars

\* a sixth analysis completed with the history already full
C25_Witness ==
    /\ stage = "history"
    /\ clock = HistoryCap + 1
    /\ ~isLoading
    /\ timers = <<>>
    /\ Len(sessionHistory) = HistoryCap
    /\ sessionHistory[1].time = clock
    /\ results.riskScore = sessionHistory[1].score

\* the render a click of Analyze happens in: what its handler closes over
Rendered == [isSZ |-> isSZ, seed |-> seed, csvData |-> csvData]

\* C26: a completion publishes the results, and adds the history entry, of
\* the subject flag, seed and CSV data of the click that started it; the
\* pending analysis keeps those values through every change of the seed,
\* the subject, the CSV data or a load from history during the delay.
C26_ResultsOfTheClick ==
    [][/\ (timers # <<>> /\ clock' = clock) => Head(timers') = Head(timers)
       /\ (timers = <<>> /\ timers' # <<>>) => Head(timers') = Rendered
       /\ clock' # clock =>
            \E c \in {Head(timers)} :
                /\ results' \in (IF c.csvData # NULL THEN MeasuredTable[c.csvData]
                                 ELSE SimulatedTable[c.isSZ, c.seed])
                /\ sessionHistory'[1].seed = (IF c.csvData # NULL THEN Str("CSV") ELSE c.seed)
                /\ sessionHistory'[1].isSZ =
                     (IF c.csvData # NULL THEN results'.riskScore.number > 50 ELSE c.isSZ)
                /\ sessionHistory'[1].score = results'.riskScore
                /\ sessionHistory'[1].level = results'.classification.level]_vars

\* during the delay of a simulated analysis the seed and the subject were
\* changed and a CSV was uploaded; then the analysis completed
C26_Witness ==
    /\ stage = "app"
    /\ ~isLoading
    /\ sessionHistory # <<>>
    /\ sessionHistory[1].time = clock
    /\ sessionHistory[1].seed \notin {seed, Str("CSV")}
    /\ sessionHistory[1].isSZ # isSZ
    /\ csvData # NULL
    /\ results \in SimulatedTable[sessionHistory[1].isSZ, sessionHistory[1].seed]

\* C27: csvData and csvError are never both set; csvData, when set, is a
\* Signal of at least 128 samples whose fields are all numbers, under the
\* name of its file; an upload step stores either the error alone or the
\* Signal alone, and Clear resets csvData, csvFileName and csvError.
C27_DataOrError ==
    /\ [](/\ ~(csvData # NULL /\ csvError # NULL)
          /\ csvData # NULL =>
                /\ Len(csvData) >= MinRows
                /\ \A i \in 1..Len(csvData) :
                      \A f \in {"time", "Fp1", "F3", "C3", "P3", "O1"} : ~isNaN(csvData[i][f])
                /\ csvFileName # ""
          /\ csvData = NULL => csvFileName = "")
    /\ [][/\ reads' \subseteq reads /\ reads' # reads =>
                \/ csvError' # NULL /\ csvData' = NULL /\ csvFileName' = ""
                \/ csvError' = NULL /\ csvData' # NULL
          /\ (csvData # NULL /\ csvData' = NULL /\ reads' = reads) =>
                csvFileName' = "" /\ csvError' = NULL]_vars

\* a rejected file finished loading after an accepted one: the error is
\* stored and the Signal is gone
C27_Witness ==
    /\ stage = "app"
    /\ csvError # NULL
    /\ csvData = NULL
    /\ reads = {}
    /\ \E i \in 1..Len(sessionHistory) : sessionHistory[i].seed = Str("CSV")

\* C28: whenever the dashboard is shown with loading finished, results are
\* those of a completed analysis, with a score and a classification, never
\* the initial empty record; and hasRun never returns to false.
C28_DashboardHasResults ==
    /\ []((hasRun /\ ~isLoading) =>
            /\ results # EMPTY_RESULTS
            /\ results.riskScore # NULL
            /\ results.classification # NULL
            /\ results.classification \in {HighRisk, Moderate, LowRisk})
    /\ [][hasRun => hasRun']_vars

\* the dashboard after the first analysis has completed
C28_Witness ==
    /\ stage = "app"
    /\ hasRun
    /\ ~isLoading
    /\ clock = 1
    /\ Len(sessionHistory) = 1
    /\ results.riskScore = sessionHistory[1].score
    /\ results.riskScore # NULL

\* C29: the seed of the app state is always a number, so no simulated
\* analysis is started with a seed that is not one.
C29_SeedIsNumber ==
    /\ DOMAIN seed = {"number"}
    /\ \A i \in 1..Len(timers) :
          timers[i].csvData = NULL => DOMAIN timers[i].seed = {"number"}

(***************************************************************************)
(* SpecShap: one pass of features.map in generateSHAPValues, for a band    *)
(* tag and the two values rng() returns in it, the smallest and the        *)
(* largest included.                                                       *)
(***************************************************************************)
ShapWords == {<<0, 0>>, <<16384, 1>>, <<32768, 0>>, <<65535, 65535>>}
ShapBands == {"alpha", "delta", "theta", "gamma", "beta", "coh"}

ShapInit ==
    /\ AppInit
    /\ stage = "shap"
    /\ input \in [isSZ : BOOLEAN, band : ShapBands, w1 : ShapWords, w2 : ShapWords]
    /\ output = NULL

MapFeature ==
    /\ stage = "shap"
    /\ \E v \in ShapValueSet(input.isSZ, input.band, input.w1, input.w2) :
          output' = [base |-> ShapBase(input.isSZ, input.band, input.w1), value |-> v]
    /\ stage' = "analyzed"
    /\ UNCHANGED <<input, appVars>>

ShapNext == MapFeature

SpecShap == ShapInit /\ [][ShapNext]_vars

\* C21: whatever rng() returns, a simulated attribution value has the sign
\* of its band: under the pathology flag alpha, beta and coherence are
\* negative and delta, theta and gamma positive, without the flag the
\* opposite, and no value is zero.
C21_SignNeverFlips ==
    stage = "analyzed" =>
        IF input.isSZ = (input.band \in {"alpha", "beta", "coh"})
        THEN output.value < 0
        ELSE output.value > 0

\* the healthy beta value for the smallest base and the most negative
\* noise: 0.02 - 0.015
C21_Witness ==
    /\ stage = "analyzed"
    /\ input = [isSZ |-> FALSE, band |-> "beta", w1 |-> <<0, 0>>, w2 |-> <<0, 0>>]
    /\ output.value = 50

\* C22: for each band tag the magnitudes drawn under the pathology flag
\* and those drawn without it come from disjoint ranges: no healthy base
\* reaches a pathological base.
C22_MagnitudeRangesDisjoint ==
    (stage = "analyzed" /\ input.isSZ) =>
        \A w \in ShapWords : ShapBase(FALSE, input.band, w) < output.base


(***************************************************************************)
(* SpecReport: ClinicalReport rendered for the results of an analysis, for *)
(* every score 0..100 with band powers on both sides of each finding's     *)
(* threshold, and for the simulated results of two seeds.                  *)
(***************************************************************************)
\* the skeleton card shown while loading
Skeleton == [skeleton |-> TRUE]

\* !riskScore: null, 0 and NaN are falsy
NotRiskScore(riskScore) == riskScore = NULL \/ riskScore = Num(0) \/ riskScore = NaN

\* the findings pushed, in order; pct is the percentage of the text, the
\* set of values Math.round can give
Findings(bandPowers) ==
    LET alpha == IF bandPowers.alpha < 10000
                 THEN <<[severity |-> "Severe", band |-> "alpha",
                         pct |-> RoundSet(18000 - bandPowers.alpha, 180)]>>
                 ELSE <<>>
        delta == IF bandPowers.delta > 18000
                 THEN <<[severity |-> "Moderate", band |-> "delta",
                         pct |-> RoundSet(bandPowers.delta - 12000, 120)]>>
                 ELSE <<>>
        theta == IF bandPowers.theta > 11000
                 THEN <<[severity |-> "Moderate", band |-> "theta",
                         pct |-> RoundSet(bandPowers.theta - 7000, 70)]>>
                 ELSE <<>>
        gamma == IF bandPowers.gamma > 3500
                 THEN <<[severity |-> "Mild", band |-> "gamma", pct |-> {}]>>
                 ELSE <<>>
        found == alpha \o delta \o theta \o gamma
    IN IF Len(found) = 0 THEN <<[severity |-> "Normal", band |-> "", pct |-> {}]>>
       ELSE found

HighActions ==
    <<"Refer for comprehensive psychiatric evaluation", "Administer PANSS symptom scale",
      "Schedule follow-up EEG in 4 weeks", "Review medication history">>
ModerateActions ==
    <<"Schedule follow-up EEG in 3 months", "Monitor for symptom progression",
      "Document baseline measurements">>
LowActions == <<"Routine annual monitoring", "No immediate action required">>

Actions(score) ==
    IF score >= 60 THEN HighActions
    ELSE IF score >= 40 THEN ModerateActions
    ELSE LowActions

\* what the component returns: the skeleton, null, or the card with its
\* findings, its alert box and its action list
ClinicalReport(res, loading) ==
    IF loading THEN Skeleton
    ELSE IF NotRiskScore(res.riskScore) THEN NULL
    ELSE [findings |-> Findings(res.bandPowers),
          level |-> res.classification.level,
          alert |-> res.classification.alert,
          actions |-> Actions(res.riskScore.number)]

ReportPowers ==
    [delta : {12000, 18000, 18001}, theta : {7000, 11001}, alpha : {9999, 10000},
     beta : {5000}, gamma : {3500, 3501}]

\* the seeds of the simulated results rendered
ReportSeeds == {<<FALSE, Num(3)>>, <<TRUE, Num(16)>>}

ResultsOf(score, bandPowers) ==
    [riskScore |-> Num(score), classification |-> classifyRisk(score),
     bandPowers |-> bandPowers]

ReportIn ==
    {ResultsOf(score, bp) : score \in 0..MaxScore, bp \in ReportPowers}
    \cup UNION {UNION {{ResultsOf(rr.score, bp) : rr \in computeRiskScore(bp, c[2])} :
                         bp \in computeBandPowers(c[1], c[2])} : c \in ReportSeeds}

ReportInit ==
    /\ AppInit
    /\ stage = "report"
    /\ input \in [results : ReportIn, isLoading : BOOLEAN]
    /\ output = NULL

Render ==
    /\ stage = "report"
    /\ output' = ClinicalReport(input.results, input.isLoading)
    /\ stage' = "rendered"
    /\ UNCHANGED <<input, appVars>>

ReportNext == Render

SpecReport == ReportInit /\ [][ReportNext]_vars

\* C30: after a completed analysis the report shows its findings and its
\* recommendations for every score 0..100, the score 0 included, and the
\* action list is the one of the classification level of the score.
C30_ReportForEveryScore ==
    (stage = "rendered" /\ ~input.isLoading) =>
        /\ output # NULL
        /\ Len(output.findings) >= 1
        /\ output.level = classifyRisk(input.results.riskScore.number).level
        /\ (output.actions = HighActions <=> output.level = "High Risk")
        /\ (output.actions = ModerateActions <=> output.level = "Moderate")
        /\ (output.actions = LowActions <=> output.level = "Low Risk")

=============================================================================
